---- MODULE Spec2Model ----
(***************************************************************************)
(* A model of aivmlib-web (Aivmlib): the metadata codecs of the AIVM       *)
(* (Safetensors) and AIVMX (ONNX) containers, the manifest validator and   *)
(* the generate / update / apply operations on an AivmMetadata aggregate.  *)
(*                                                                         *)
(* A JavaScript string is a sequence of code points, a byte buffer a       *)
(* sequence of numbers in 0..255, a JavaScript object an ordered sequence  *)
(* of [k, v] entries with pairwise distinct keys (insertion order).        *)
(***************************************************************************)
EXTENDS Integers, Sequences, FiniteSets, TLC

VARIABLES
    pc,                     \* position of the calling script
    aivm_file,              \* bytes of the AIVM (Safetensors) file handed to a codec
    aivmx_file,             \* bytes of the AIVMX (ONNX) file handed to a codec
    raw_metadata,           \* the flat string map handed to a codec or to the validator
    aivm_metadata,          \* the AivmMetadata aggregate the caller holds
    architecture,           \* the model_architecture argument given by the caller
    hyper_parameters_file,  \* parsed content of the hyperparameter file given by the caller
    style_vectors_file,     \* the style vector file given by the caller, or Null
    written,                \* what the last write operation returned
    read,                   \* what the last read operation returned
    result,                 \* what the last generate / update / apply / validate returned
    uuid_counter            \* number of identifiers uuid.v4() has handed out

vars == <<pc, aivm_file, aivmx_file, raw_metadata, aivm_metadata,
          architecture, hyper_parameters_file, style_vectors_file, written,
          read, result, uuid_counter>>

----------------------------------------------------------------------------
(* Bounds of the model *)

\* longest run of padding spaces after the header JSON of an input container
MaxPad == 1
\* longest payload (tensor data) of an input container, in bytes
MaxPayloadLen == 2

----------------------------------------------------------------------------
(* Values shared by all operations *)

Null == [t |-> "null", v |-> 0]
Undefined == [t |-> "undefined", v |-> 0]

Min(a, b) == IF a < b THEN a ELSE b
Max(a, b) == IF a < b THEN b ELSE a

\* the code points the model's texts are made of
Ch == [lbrace |-> 123, rbrace |-> 125, lbracket |-> 91, rbracket |-> 93,
       quote |-> 34, colon |-> 58, comma |-> 44, backslash |-> 92,
       slash |-> 47, space |-> 32, newline |-> 10, tab |-> 9, cr |-> 13,
       n |-> 110, zero |-> 48, nine |-> 57, replacement |-> 65533,
       katakana_no |-> 12494, minus |-> 45]

\* the keys of the flat metadata map, as code points
Key == [metadata |-> <<95, 95, 109, 101, 116, 97, 100, 97, 116, 97, 95, 95>>,
        manifest |-> <<97, 105, 118, 109, 95, 109, 97, 110, 105, 102, 101, 115, 116>>,
        hyper_parameters |-> <<97, 105, 118, 109, 95, 104, 121, 112, 101, 114, 95,
                               112, 97, 114, 97, 109, 101, 116, 101, 114, 115>>,
        style_vectors |-> <<97, 105, 118, 109, 95, 115, 116, 121, 108, 101, 95,
                            118, 101, 99, 116, 111, 114, 115>>,
        format |-> <<102, 111, 114, 109, 97, 116>>,
        pt |-> <<112, 116>>,
        w |-> <<119>>,
        dtype |-> <<100, 116, 121, 112, 101>>,
        f32 |-> <<70, 51, 50>>,
        data_offsets |-> <<100, 97, 116, 97, 95, 111, 102, 102, 115, 101, 116, 115>>]

----------------------------------------------------------------------------
(* JavaScript values: a record [t, v] with t the type *)

JStr(s) == [t |-> "str", v |-> s]
JNum(k) == [t |-> "num", v |-> k]
JObj(entries) == [t |-> "obj", v |-> entries]
JArr(elements) == [t |-> "arr", v |-> elements]
JBool(b) == [t |-> "bool", v |-> b]

\* ToBoolean of a value, as `||` and `if` apply it
Truthy(x) ==
    CASE x.t = "undefined" -> FALSE
      [] x.t = "null" -> FALSE
      [] x.t = "str" -> x.v # <<>>
      [] x.t = "num" -> x.v # 0
      [] x.t = "bool" -> x.v
      [] OTHER -> TRUE

\* the position of key k among the entries of an object, 0 when it has none
KeyIndex(entries, k) ==
    LET hits == {i \in 1..Len(entries) : entries[i].k = k}
    IN IF hits = {} THEN 0 ELSE CHOOSE i \in hits : \A j \in hits : i <= j

\* obj[k] : the value of the key, undefined when the object has none
ObjGet(entries, k) ==
    LET ValueAt(i) == IF i = 0 THEN Undefined ELSE entries[i].v
    IN ValueAt(KeyIndex(entries, k))

\* obj[k] = x : an existing key keeps its place, a new key goes last
ObjSet(entries, k, x) ==
    LET PutAt(i) == IF i = 0 THEN Append(entries, [k |-> k, v |-> x])
                    ELSE [entries EXCEPT ![i] = [k |-> k, v |-> x]]
    IN PutAt(KeyIndex(entries, k))

ObjKeys(entries) == {entries[i].k : i \in 1..Len(entries)}

----------------------------------------------------------------------------
(* JSON.stringify *)

\* one character of a string literal
EscapeCodePoint(c) ==
    CASE c = Ch.quote -> <<Ch.backslash, Ch.quote>>
      [] c = Ch.backslash -> <<Ch.backslash, Ch.backslash>>
      [] c = Ch.newline -> <<Ch.backslash, Ch.n>>
      [] OTHER -> <<c>>

\* the escaped characters of a string, computed by halves
RECURSIVE EscapeJSONString(_)
EscapeJSONString(s) ==
    IF s = <<>> THEN <<>>
    ELSE IF Len(s) = 1 THEN EscapeCodePoint(s[1])
    ELSE EscapeJSONString(SubSeq(s, 1, Len(s) \div 2))
         \o EscapeJSONString(SubSeq(s, Len(s) \div 2 + 1, Len(s)))

RECURSIVE Digits(_)
Digits(k) ==
    IF k < 10 THEN <<Ch.zero + k>> ELSE Append(Digits(k \div 10), Ch.zero + (k % 10))

\* the texts `null`, `true` and `false`
Literal == [null |-> <<Ch.n, 117, 108, 108>>, true |-> <<116, 114, 117, 101>>,
            false |-> <<102, 97, 108, 115, 101>>]

RECURSIVE JSONStringify(_), StringifyMembers(_), StringifyElements(_)
JSONStringify(x) ==
    CASE x.t = "str" -> <<Ch.quote>> \o EscapeJSONString(x.v) \o <<Ch.quote>>
      [] x.t = "num" -> IF x.v < 0 THEN <<Ch.minus>> \o Digits(0 - x.v) ELSE Digits(x.v)
      [] x.t = "bool" -> IF x.v THEN Literal.true ELSE Literal.false
      [] x.t = "obj" -> <<Ch.lbrace>> \o StringifyMembers(x.v) \o <<Ch.rbrace>>
      [] x.t = "arr" -> <<Ch.lbracket>> \o StringifyElements(x.v) \o <<Ch.rbracket>>
      [] OTHER -> Literal.null

StringifyMembers(entries) ==
    IF entries = <<>> THEN <<>>
    ELSE <<Ch.quote>> \o EscapeJSONString(Head(entries).k) \o <<Ch.quote, Ch.colon>>
         \o JSONStringify(Head(entries).v)
         \o (IF Tail(entries) = <<>> THEN <<>>
             ELSE <<Ch.comma>> \o StringifyMembers(Tail(entries)))

StringifyElements(elements) ==
    IF elements = <<>> THEN <<>>
    ELSE JSONStringify(Head(elements))
         \o (IF Tail(elements) = <<>> THEN <<>>
             ELSE <<Ch.comma>> \o StringifyElements(Tail(elements)))

----------------------------------------------------------------------------
(* JSON.parse: a parser returns [ok, v, i], i the position after the value *)

ParseFail == [ok |-> FALSE, v |-> Undefined, i |-> 0]
Parsed(x, i) == [ok |-> TRUE, v |-> x, i |-> i]

IsWhitespace(c) == c \in {Ch.space, Ch.newline, Ch.tab, Ch.cr}
IsDigit(c) == c >= Ch.zero /\ c <= Ch.nine

RECURSIVE SkipWhitespace(_, _)
SkipWhitespace(s, i) ==
    IF i <= Len(s) /\ IsWhitespace(s[i]) THEN SkipWhitespace(s, i + 1) ELSE i

\* one step through a string literal: st = [i, acc, state], state "more" while
\* the closing quote is ahead, "end" after it, "fail" on a malformed literal
StringStep(s, st) ==
    LET i == st.i
        failed == [i |-> i, acc |-> st.acc, state |-> "fail"]
        more(j, c) == [i |-> j, acc |-> Append(st.acc, c), state |-> "more"]
    IN IF i > Len(s) THEN failed
       ELSE IF s[i] = Ch.quote THEN [i |-> i + 1, acc |-> st.acc, state |-> "end"]
       ELSE IF s[i] = Ch.backslash
            THEN IF i + 1 > Len(s) THEN failed
                 ELSE IF s[i + 1] \in {Ch.quote, Ch.backslash, Ch.slash}
                      THEN more(i + 2, s[i + 1])
                 ELSE IF s[i + 1] = Ch.n THEN more(i + 2, Ch.newline)
                 ELSE failed
       ELSE IF s[i] < Ch.space THEN failed
       ELSE more(i + 1, s[i])

RECURSIVE StringRun(_, _, _)
StringRun(s, st, k) ==
    IF k = 0 \/ st.state # "more" THEN st ELSE StringRun(s, StringStep(s, st), k - 1)

RECURSIVE StringLoop(_, _)
StringLoop(s, st) ==
    IF st.state # "more" THEN st ELSE StringLoop(s, StringRun(s, st, 8))

\* the characters of a string literal, from position i (after the opening quote)
ParseStringBody(s, i, acc) ==
    LET Result(st) == IF st.state = "end" THEN Parsed(st.acc, st.i) ELSE ParseFail
    IN Result(StringLoop(s, [i |-> i, acc |-> acc, state |-> "more"]))

RECURSIVE ParseNumber(_, _, _)
ParseNumber(s, i, acc) ==
    IF i <= Len(s) /\ IsDigit(s[i])
    THEN ParseNumber(s, i + 1, acc * 10 + (s[i] - Ch.zero))
    ELSE Parsed(JNum(acc), i)

RECURSIVE ParseValue(_, _), ParseMembers(_, _), ParseElements(_, _)

\* one "key": value pair and the comma or closing brace after it:
\* st = [i, acc, state], state "more" after a comma, "end" after the brace;
\* a repeated key takes the last value
MemberStep(s, st) ==
    LET failed == [st EXCEPT !.state = "fail"]
        End(e, obj) ==
            IF e > Len(s) THEN failed
            ELSE IF s[e] = Ch.rbrace THEN [i |-> e + 1, acc |-> obj, state |-> "end"]
            ELSE IF s[e] = Ch.comma THEN [i |-> e + 1, acc |-> obj, state |-> "more"]
            ELSE failed
        Value(k, val) ==
            IF ~val.ok THEN failed
            ELSE End(SkipWhitespace(s, val.i), ObjSet(st.acc, k, val.v))
        ColonAt(k, c) ==
            IF c > Len(s) \/ s[c] # Ch.colon THEN failed
            ELSE Value(k, ParseValue(s, c + 1))
        Colon(key) ==
            IF ~key.ok THEN failed ELSE ColonAt(key.v, SkipWhitespace(s, key.i))
        KeyAt(i) ==
            IF i > Len(s) \/ s[i] # Ch.quote THEN failed
            ELSE Colon(ParseStringBody(s, i + 1, <<>>))
    IN KeyAt(SkipWhitespace(s, st.i))

\* the members of an object up to the closing brace
ParseMembers(s, st) ==
    IF st.state # "more" THEN st ELSE ParseMembers(s, MemberStep(s, st))

\* one element of an array and the comma or closing bracket after it
ElementStep(s, st) ==
    LET failed == [st EXCEPT !.state = "fail"]
        End(e, elements) ==
            IF e > Len(s) THEN failed
            ELSE IF s[e] = Ch.rbracket
                 THEN [i |-> e + 1, acc |-> elements, state |-> "end"]
            ELSE IF s[e] = Ch.comma THEN [i |-> e + 1, acc |-> elements, state |-> "more"]
            ELSE failed
        Value(val) ==
            IF ~val.ok THEN failed
            ELSE End(SkipWhitespace(s, val.i), Append(st.acc, val.v))
    IN Value(ParseValue(s, st.i))

\* the elements of an array up to the closing bracket
ParseElements(s, st) ==
    IF st.state # "more" THEN st ELSE ParseElements(s, ElementStep(s, st))

\* the value that starts at position i0, after whitespace
ParseValue(s, i0) ==
    LET Negative(r) == IF r.ok THEN Parsed(JNum(0 - r.v.v), r.i) ELSE ParseFail
        String(r) == IF r.ok THEN Parsed(JStr(r.v), r.i) ELSE ParseFail
        Object(st) == IF st.state = "end" THEN Parsed(JObj(st.acc), st.i) ELSE ParseFail
        Array(st) == IF st.state = "end" THEN Parsed(JArr(st.acc), st.i) ELSE ParseFail
        Closes(j, c) == j <= Len(s) /\ s[j] = c
        Opened(j) == [i |-> j, acc |-> <<>>, state |-> "more"]
        ObjectAt(j) ==
            IF Closes(j, Ch.rbrace) THEN Parsed(JObj(<<>>), j + 1)
            ELSE Object(ParseMembers(s, Opened(j)))
        ArrayAt(j) ==
            IF Closes(j, Ch.rbracket) THEN Parsed(JArr(<<>>), j + 1)
            ELSE Array(ParseElements(s, Opened(j)))
        Starts(i, literal) == /\ i + Len(literal) - 1 <= Len(s)
                              /\ SubSeq(s, i, i + Len(literal) - 1) = literal
        At(i) ==
            IF i > Len(s) THEN ParseFail
            ELSE IF s[i] = Ch.quote THEN String(ParseStringBody(s, i + 1, <<>>))
            ELSE IF IsDigit(s[i]) THEN ParseNumber(s, i, 0)
            ELSE IF s[i] = Ch.minus /\ i < Len(s) /\ IsDigit(s[i + 1])
                 THEN Negative(ParseNumber(s, i + 1, 0))
            ELSE IF s[i] = Ch.lbrace THEN ObjectAt(SkipWhitespace(s, i + 1))
            ELSE IF s[i] = Ch.lbracket THEN ArrayAt(SkipWhitespace(s, i + 1))
            ELSE IF Starts(i, Literal.null) THEN Parsed(Null, i + 4)
            ELSE IF Starts(i, Literal.true) THEN Parsed(JBool(TRUE), i + 4)
            ELSE IF Starts(i, Literal.false) THEN Parsed(JBool(FALSE), i + 5)
            ELSE ParseFail
    IN At(SkipWhitespace(s, i0))

\* JSON.parse(text): [ok, v]; ok is FALSE where JSON.parse throws SyntaxError.
\* The value has to end the text, but for whitespace.
JSONParse(text) ==
    LET Result(r) ==
            IF r.ok /\ SkipWhitespace(text, r.i) = Len(text) + 1
            THEN [ok |-> TRUE, v |-> r.v]
            ELSE [ok |-> FALSE, v |-> Undefined]
    IN Result(ParseValue(text, 1))

----------------------------------------------------------------------------
(* Bytes: TextEncoder, TextDecoder, DataView, Uint8Array *)

\* the UTF-8 bytes of one code point below 65536 (a lone surrogate becomes U+FFFD)
EncodeCodePoint(c) ==
    IF c < 128 THEN <<c>>
    ELSE IF c < 2048 THEN <<192 + (c \div 64), 128 + (c % 64)>>
    ELSE IF c >= 55296 /\ c <= 57343 THEN <<239, 191, 189>>
    ELSE <<224 + (c \div 4096), 128 + ((c \div 64) % 64), 128 + (c % 64)>>

\* new TextEncoder().encode(text), computed by halves
RECURSIVE TextEncode(_)
TextEncode(text) ==
    IF text = <<>> THEN <<>>
    ELSE IF Len(text) = 1 THEN EncodeCodePoint(text[1])
    ELSE TextEncode(SubSeq(text, 1, Len(text) \div 2))
         \o TextEncode(SubSeq(text, Len(text) \div 2 + 1, Len(text)))

IsContinuation(b) == b >= 128 /\ b <= 191

\* one step of the decoder: st = [i, acc]; a malformed byte becomes U+FFFD
DecodeStep(b, st) ==
    LET i == st.i
        next(j, c) == [i |-> j, acc |-> Append(st.acc, c)]
    IN IF b[i] < 128 THEN next(i + 1, b[i])
       ELSE IF b[i] >= 194 /\ b[i] <= 223 /\ i + 1 <= Len(b) /\ IsContinuation(b[i + 1])
            THEN next(i + 2, (b[i] - 192) * 64 + (b[i + 1] - 128))
       ELSE IF b[i] >= 224 /\ b[i] <= 239 /\ i + 2 <= Len(b)
               /\ IsContinuation(b[i + 1]) /\ IsContinuation(b[i + 2])
               /\ (b[i] = 224 => b[i + 1] >= 160) /\ (b[i] = 237 => b[i + 1] <= 159)
            THEN next(i + 3, (b[i] - 224) * 4096 + (b[i + 1] - 128) * 64 + (b[i + 2] - 128))
       ELSE next(i + 1, Ch.replacement)

RECURSIVE DecodeRun(_, _, _)
DecodeRun(b, st, k) ==
    IF k = 0 \/ st.i > Len(b) THEN st ELSE DecodeRun(b, DecodeStep(b, st), k - 1)

RECURSIVE DecodeLoop(_, _)
DecodeLoop(b, st) ==
    IF st.i > Len(b) THEN st ELSE DecodeLoop(b, DecodeRun(b, st, 16))

\* the code points of UTF-8 bytes from position i
DecodeFrom(b, i, acc) == DecodeLoop(b, [i |-> i, acc |-> acc]).acc

\* new TextDecoder('utf-8').decode(bytes): a leading byte order mark is dropped
TextDecode(b) ==
    IF Len(b) >= 3 /\ SubSeq(b, 1, 3) = <<239, 187, 191>>
    THEN DecodeFrom(b, 4, <<>>)
    ELSE DecodeFrom(b, 1, <<>>)

\* bytes.slice(from, to), both clamped to the buffer
Slice(b, from, to) == SubSeq(b, Min(from, Len(b)) + 1, Min(to, Len(b)))

\* DataView.getBigUint64(0, true) of a buffer of at least 8 bytes; every value
\* of 2^31 or more is read as 2^31 - 1, which no buffer of the model reaches
GetBigUint64(b) ==
    IF b[4] >= 128 \/ \E i \in 5..8 : b[i] # 0 THEN 2147483647
    ELSE b[1] + 256 * b[2] + 65536 * b[3] + 16777216 * b[4]

\* DataView.setBigUint64(0, size, true) on 8 zero bytes
SetBigUint64(size) ==
    <<size % 256, (size \div 256) % 256, (size \div 65536) % 256,
      (size \div 16777216) % 256, 0, 0, 0, 0>>

----------------------------------------------------------------------------
(* The AIVM (Safetensors) container:                                       *)
(* [8 bytes: header size, little endian][header JSON][tensor data]         *)

Failure(kind) == [ok |-> FALSE, error |-> kind]

\* a merge that adds the new keys and leaves a key the header already has
RECURSIVE AssignAll_KeepExisting(_, _)
AssignAll_KeepExisting(existing_entries, raw_entries) ==
    IF raw_entries = <<>> THEN existing_entries
    ELSE AssignAll_KeepExisting(
             IF KeyIndex(existing_entries, Head(raw_entries).k) = 0
             THEN ObjSet(existing_entries, Head(raw_entries).k, Head(raw_entries).v)
             ELSE existing_entries,
             Tail(raw_entries))

\* for (const key in raw_metadata) existing_metadata[key] = raw_metadata[key]
RECURSIVE AssignAll(_, _)
AssignAll(existing_entries, raw_entries) ==
    IF raw_entries = <<>> THEN existing_entries
    ELSE AssignAll(ObjSet(existing_entries, Head(raw_entries).k, Head(raw_entries).v),
                   Tail(raw_entries))

\* a payload located with the size of the new header
PayloadOffset_NewSize(existing_header_size, new_header_bytes) == 8 + Len(new_header_bytes)

\* where the tensor data of the existing file starts
PayloadOffset(existing_header_size, new_header_bytes) == 8 + existing_header_size

\* writeAivmMetadata from its read of the file on: the bytes of the new file
WriteAivmFile(aivm_file_bytes, raw) ==
    LET \* existing_header['__metadata__'] || {}
        ExistingMetadataOf(existing_header) ==
            IF existing_header.t = "obj" /\ Truthy(ObjGet(existing_header.v, Key.metadata))
            THEN ObjGet(existing_header.v, Key.metadata)
            ELSE JObj(<<>>)
        \* the size of the new header, the new header, the old tensor data
        NewFileContent(existing_header_size, new_header_bytes) ==
            IF existing_header_size > Len(aivm_file_bytes) - 8
            THEN Failure("RangeError")
            ELSE [ok |-> TRUE, error |-> "",
                  file |-> SetBigUint64(Len(new_header_bytes)) \o new_header_bytes
                           \o Slice(aivm_file_bytes,
                                    PayloadOffset(existing_header_size, new_header_bytes),
                                    Len(aivm_file_bytes))]
        \* the header with its __metadata__ replaced, serialized and encoded
        NewHeaderBytes(existing_header, updated_metadata) ==
            TextEncode(JSONStringify(
                IF existing_header.t = "obj"
                THEN JObj(ObjSet(existing_header.v, Key.metadata, updated_metadata))
                ELSE existing_header))
        \* the new metadata assigned key by key into the existing __metadata__
        WriteMetadataInto(existing_header_size, existing_header, existing_metadata) ==
            IF \/ existing_metadata.t \in {"str", "num", "bool"}
               \/ existing_header.t \in {"str", "num", "bool"}
            THEN Failure("TypeError")
            ELSE NewFileContent(existing_header_size,
                     NewHeaderBytes(existing_header,
                         IF existing_metadata.t = "obj"
                         THEN JObj(AssignAll(existing_metadata.v, raw))
                         ELSE existing_metadata))
        \* the parsed header, or the format error of an unparseable one
        WriteParsedHeader(existing_header_size, parsed) ==
            IF ~parsed.ok THEN Failure("FormatError")
            ELSE IF parsed.v.t = "null" THEN Failure("TypeError")
            ELSE WriteMetadataInto(existing_header_size, parsed.v,
                                   ExistingMetadataOf(parsed.v))
        \* the header bytes: aivm_file_bytes.slice(8, 8 + existing_header_size)
        WriteWithHeaderSize(existing_header_size) ==
            WriteParsedHeader(existing_header_size,
                JSONParse(TextDecode(Slice(aivm_file_bytes, 8,
                    IF existing_header_size >= Len(aivm_file_bytes)
                    THEN Len(aivm_file_bytes) ELSE 8 + existing_header_size))))
    IN IF Len(aivm_file_bytes) < 8 THEN Failure("RangeError")
       ELSE WriteWithHeaderSize(GetBigUint64(aivm_file_bytes))

\* a read that takes the header bytes with aivm_file_bytes.slice, which
\* stops at the end of the file and never throws
ReadAivmRawMetadata_Sliced(aivm_file_bytes) ==
    LET Parsed_(parsed) ==
            IF ~parsed.ok THEN Failure("SyntaxError")
            ELSE [ok |-> TRUE, error |-> "",
                  raw_metadata |-> IF parsed.v.t = "obj"
                                   THEN ObjGet(parsed.v.v, Key.metadata) ELSE Undefined]
    IN IF Len(aivm_file_bytes) < 8 THEN Failure("RangeError")
       ELSE Parsed_(JSONParse(TextDecode(
                Slice(aivm_file_bytes, 8, 8 + Min(GetBigUint64(aivm_file_bytes),
                                                  Len(aivm_file_bytes))))))

\* readAivmMetadata up to its call of the validator: header_json['__metadata__']
ReadAivmRawMetadata(aivm_file_bytes) ==
    LET \* header_json['__metadata__'] of a parsed header
        ReadParsedHeader(parsed) ==
            IF ~parsed.ok THEN Failure("SyntaxError")
            ELSE IF parsed.v.t = "null" THEN Failure("TypeError")
            ELSE [ok |-> TRUE, error |-> "",
                  raw_metadata |-> IF parsed.v.t = "obj"
                                   THEN ObjGet(parsed.v.v, Key.metadata) ELSE Undefined]
        \* the header bytes: new Uint8Array(array_buffer, 8, Number(header_size))
        ReadWithHeaderSize(header_size) ==
            IF header_size > Len(aivm_file_bytes) - 8 THEN Failure("FormatError")
            ELSE ReadParsedHeader(
                     JSONParse(TextDecode(SubSeq(aivm_file_bytes, 9, 8 + header_size))))
    IN IF Len(aivm_file_bytes) < 8 THEN Failure("RangeError")
       ELSE ReadWithHeaderSize(GetBigUint64(aivm_file_bytes))

----------------------------------------------------------------------------
(* Inputs of the AIVM codec: containers and flat metadata maps *)

\* short texts with the characters that JSON escapes or UTF-8 widens
Text == [a |-> <<97>>,
         quoted |-> <<Ch.quote, Ch.katakana_no, Ch.backslash>>,
         json |-> <<Ch.lbrace, Ch.quote, 97, Ch.quote, Ch.colon, Ch.quote,
                    Ch.newline, Ch.katakana_no, Ch.quote, Ch.rbrace>>]

Entry(k, x) == [k |-> k, v |-> x]

\* one tensor of the header: "w":{"dtype":"F32","data_offsets":[0,2]}
TensorEntry ==
    Entry(Key.w, JObj(<<Entry(Key.dtype, JStr(Key.f32)),
                        Entry(Key.data_offsets, JArr(<<JNum(0), JNum(2)>>))>>))

\* the __metadata__ objects an input header holds (0: the key is absent)
ExistingMetadata(i) ==
    CASE i = 1 -> <<>>
      [] i = 2 -> <<Entry(Key.format, JStr(Key.pt))>>
      [] i = 3 -> <<Entry(Key.manifest, JStr(Text.quoted))>>
      [] i = 4 -> <<Entry(Key.style_vectors, JStr(Text.a)),
                    Entry(Key.format, JStr(Key.pt))>>
      [] i = 5 -> <<Entry(Key.hyper_parameters, JStr(Text.json)),
                    Entry(Key.format, JStr(Key.pt)),
                    Entry(Key.manifest, JStr(Text.json))>>

NumExistingMetadata == 5

\* the header object: layout 0 has no tensor, 1 the metadata first, 2 the tensor first
HeaderEntries(layout, i) ==
    LET MetadataEntry ==
            IF i = 0 THEN <<>> ELSE <<Entry(Key.metadata, JObj(ExistingMetadata(i)))>>
    IN CASE layout = 0 -> MetadataEntry
         [] layout = 1 -> MetadataEntry \o <<TensorEntry>>
         [] layout = 2 -> <<TensorEntry>> \o MetadataEntry

Spaces(k) == [i \in 1..k |-> Ch.space]

\* a well-formed container: the size of the header, the header, the payload
Container(layout, i, pad, payload) ==
    LET FileOf(header_bytes) == SetBigUint64(Len(header_bytes)) \o header_bytes \o payload
    IN FileOf(TextEncode(JSONStringify(JObj(HeaderEntries(layout, i))) \o Spaces(pad)))

PayloadBytes == {0, 255}

RECURSIVE SeqsUpTo(_, _)
SeqsUpTo(S, k) ==
    IF k = 0 THEN {<<>>}
    ELSE SeqsUpTo(S, k - 1)
         \cup {Append(q, x) : q \in {r \in SeqsUpTo(S, k - 1) : Len(r) = k - 1}, x \in S}

\* what serializeAivmMetadata hands to the codec: the manifest and the
\* hyperparameters always, the style vectors when the aggregate has them
\* (sv = 0: no style vectors, 1: the empty text, 2: a text)
SerializedMetadata(manifest_text, hyper_parameters_text, sv) ==
    <<Entry(Key.manifest, JStr(manifest_text)),
      Entry(Key.hyper_parameters, JStr(hyper_parameters_text))>>
    \o (CASE sv = 0 -> <<>>
           [] sv = 1 -> <<Entry(Key.style_vectors, JStr(<<>>))>>
           [] sv = 2 -> <<Entry(Key.style_vectors, JStr(Text.quoted))>>)

----------------------------------------------------------------------------
(* SpecAivm: a caller writes a metadata map into an AIVM file, then reads   *)
(* the written file                                                         *)

InitAivm ==
    /\ pc = "start"
    /\ \E layout \in 0..2, i \in 0..NumExistingMetadata, pad \in 0..MaxPad,
          payload \in SeqsUpTo(PayloadBytes, MaxPayloadLen) :
            aivm_file = Container(layout, i, pad, payload)
    /\ \E m \in {Text.a, Text.json}, h \in {Text.a, Text.quoted}, sv \in 0..2 :
            raw_metadata = SerializedMetadata(m, h, sv)
    /\ aivmx_file = <<>>
    /\ aivm_metadata = Null
    /\ architecture = <<>>
    /\ hyper_parameters_file = Null
    /\ style_vectors_file = Null
    /\ written = Null
    /\ read = Null
    /\ result = Null
    /\ uuid_counter = 0

\* writeAivmMetadata, resumed after `await aivm_file.arrayBuffer()`
WriteAivm ==
    /\ pc = "start"
    /\ written' = WriteAivmFile(aivm_file, raw_metadata)
    /\ pc' = "written"
    /\ UNCHANGED <<aivm_file, aivmx_file, raw_metadata, aivm_metadata,
                   architecture, hyper_parameters_file, style_vectors_file, read, result,
                   uuid_counter>>

\* readAivmMetadata on the file writeAivmMetadata returned
ReadAivm ==
    /\ pc = "written"
    /\ written.ok
    /\ read' = ReadAivmRawMetadata(written.file)
    /\ pc' = "read"
    /\ UNCHANGED <<aivm_file, aivmx_file, raw_metadata, aivm_metadata,
                   architecture, hyper_parameters_file, style_vectors_file, written, result,
                   uuid_counter>>

NextAivm == WriteAivm \/ ReadAivm

SpecAivm == InitAivm /\ [][NextAivm]_vars

\* a raw metadata value as a map from key to text; undefined is the empty map
MetadataMap(x) ==
    IF x.t = "obj" THEN [k \in ObjKeys(x.v) |-> ObjGet(x.v, k).v] ELSE <<>>

\* the map m merged over the map old
MergedOver(m, old) ==
    [k \in DOMAIN old \cup DOMAIN m |-> IF k \in DOMAIN m THEN m[k] ELSE old[k]]

\* C1: the __metadata__ map read from the written container is the map read
\* from the original container with every key of the written map added or
\* overwritten and every other key kept.
C1_TensorRoundTrip ==
    pc = "read" =>
        /\ read.ok
        /\ MetadataMap(read.raw_metadata)
             = MergedOver(MetadataMap(JObj(raw_metadata)),
                          MetadataMap(ReadAivmRawMetadata(aivm_file).raw_metadata))

\* a read after a write that overwrote one key and kept another
C1_Witness ==
    /\ pc = "read"
    /\ read.ok
    /\ LET old == MetadataMap(ReadAivmRawMetadata(aivm_file).raw_metadata)
           m == MetadataMap(JObj(raw_metadata))
       IN /\ \E k \in DOMAIN old : k \notin DOMAIN m
          /\ \E k \in DOMAIN old \cap DOMAIN m : old[k] # m[k]

HeaderSize(file) == GetBigUint64(file)

\* C2: the written file is the new header size, a header of that many bytes
\* holding the JSON header, and then the bytes the original file holds after
\* its own header.
C2_PayloadPreserved ==
    (pc = "written" /\ written.ok) =>
        /\ Len(written.file) >= 8 + HeaderSize(written.file)
        /\ JSONParse(TextDecode(SubSeq(written.file, 9, 8 + HeaderSize(written.file)))).ok
        /\ SubSeq(written.file, 9 + HeaderSize(written.file), Len(written.file))
             = SubSeq(aivm_file, 9 + HeaderSize(aivm_file), Len(aivm_file))

\* a write whose new header is shorter than the old one, before a payload
C2_Witness ==
    /\ pc = "written"
    /\ written.ok
    /\ HeaderSize(written.file) < HeaderSize(aivm_file)
    /\ Len(aivm_file) > 8 + HeaderSize(aivm_file)

\* a write whose new header is longer than the old one
C2_Longer ==
    /\ pc = "written"
    /\ written.ok
    /\ HeaderSize(written.file) > HeaderSize(aivm_file)
    /\ Len(aivm_file) > 8 + HeaderSize(aivm_file)

----------------------------------------------------------------------------
(* The AIVMX (ONNX) container: a protocol buffer message, onnx.ModelProto.  *)
(* Of its fields the model keeps ir_version (1, a varint), graph (7, kept   *)
(* as its bytes) and metadata_props (14, a list of StringStringEntryProto   *)
(* with key (1) and value (2)); a field it does not know is skipped.        *)

Tag == [ir_version |-> 8, graph |-> 58, metadata_props |-> 114, key |-> 10, value |-> 18]

\* a base 128 varint of one or two bytes, at position i: [ok, v, i]
ReadVarint(b, i) ==
    IF i > Len(b) THEN ParseFail
    ELSE IF b[i] < 128 THEN Parsed(b[i], i + 1)
    ELSE IF i + 1 <= Len(b) /\ b[i + 1] < 128
         THEN Parsed((b[i] - 128) + 128 * b[i + 1], i + 2)
    ELSE ParseFail

WriteVarint(k) == IF k < 128 THEN <<k>> ELSE <<128 + (k % 128), k \div 128>>

\* a length-delimited payload whose length was read as len: [ok, v, i]
ReadDelimited(b, len) ==
    IF ~len.ok \/ len.i + len.v - 1 > Len(b) THEN ParseFail
    ELSE Parsed(SubSeq(b, len.i, len.i + len.v - 1), len.i + len.v)

\* reader.skipType(tag & 7): the position after the field, 0 when it throws
SkipField(b, i, wire_type) ==
    CASE wire_type = 0 -> ReadVarint(b, i).i
      [] wire_type = 1 -> IF i + 7 <= Len(b) THEN i + 8 ELSE 0
      [] wire_type = 2 -> ReadDelimited(b, ReadVarint(b, i)).i
      [] wire_type = 5 -> IF i + 3 <= Len(b) THEN i + 4 ELSE 0
      [] OTHER -> 0

\* the fields of a StringStringEntryProto from position st.i: st = [i, entry, state]
RECURSIVE DecodeEntryFields(_, _)
DecodeEntryFields(b, st) ==
    LET EntryField(payload) ==
            IF ~payload.ok THEN [st EXCEPT !.state = "fail"]
            ELSE IF b[st.i] = Tag.key
                 THEN [i |-> payload.i, state |-> "more",
                       entry |-> [st.entry EXCEPT !.key = TextDecode(payload.v),
                                                  !.has_key = TRUE]]
            ELSE [i |-> payload.i, state |-> "more",
                  entry |-> [st.entry EXCEPT !.value = TextDecode(payload.v),
                                             !.has_value = TRUE]]
        EntrySkip(next) ==
            IF next = 0 THEN [st EXCEPT !.state = "fail"] ELSE [st EXCEPT !.i = next]
    IN IF st.state # "more" THEN st
       ELSE IF st.i > Len(b) THEN [st EXCEPT !.state = "end"]
       ELSE IF b[st.i] \in {Tag.key, Tag.value}
            THEN DecodeEntryFields(b,
                     EntryField(ReadDelimited(b, ReadVarint(b, st.i + 1))))
       ELSE DecodeEntryFields(b, EntrySkip(SkipField(b, st.i + 1, b[st.i] % 8)))

\* onnx.StringStringEntryProto.decode
DecodeEntry(b) ==
    DecodeEntryFields(b,
        [i |-> 1, state |-> "more",
         entry |-> [key |-> <<>>, value |-> <<>>, has_key |-> FALSE, has_value |-> FALSE]])

\* the fields of a ModelProto from position st.i: st = [i, model, state]
RECURSIVE DecodeModelFields(_, _)
DecodeModelFields(b, st) ==
    LET ModelIrVersion(v) ==
            IF ~v.ok THEN [st EXCEPT !.state = "fail"]
            ELSE [i |-> v.i, state |-> "more",
                  model |-> [st.model EXCEPT !.ir_version = v.v, !.has_ir_version = TRUE]]
        ModelGraph(payload) ==
            IF ~payload.ok THEN [st EXCEPT !.state = "fail"]
            ELSE [i |-> payload.i, state |-> "more",
                  model |-> [st.model EXCEPT !.graph = payload.v, !.has_graph = TRUE]]
        ModelProp(next, entry) ==
            IF entry.state # "end" THEN [st EXCEPT !.state = "fail"]
            ELSE [i |-> next, state |-> "more",
                  model |-> [st.model EXCEPT !.metadataProps = Append(@, entry.entry)]]
        ModelMetadataProp(payload) ==
            IF ~payload.ok THEN [st EXCEPT !.state = "fail"]
            ELSE ModelProp(payload.i, DecodeEntry(payload.v))
        ModelSkip(next) ==
            IF next = 0 THEN [st EXCEPT !.state = "fail"] ELSE [st EXCEPT !.i = next]
    IN IF st.state # "more" THEN st
       ELSE IF st.i > Len(b) THEN [st EXCEPT !.state = "end"]
       ELSE IF b[st.i] = Tag.ir_version
            THEN DecodeModelFields(b, ModelIrVersion(ReadVarint(b, st.i + 1)))
       ELSE IF b[st.i] = Tag.graph
            THEN DecodeModelFields(b,
                     ModelGraph(ReadDelimited(b, ReadVarint(b, st.i + 1))))
       ELSE IF b[st.i] = Tag.metadata_props
            THEN DecodeModelFields(b,
                     ModelMetadataProp(ReadDelimited(b, ReadVarint(b, st.i + 1))))
       ELSE DecodeModelFields(b, ModelSkip(SkipField(b, st.i + 1, b[st.i] % 8)))

\* onnx.ModelProto.decode(reader): [state, model], state "end" when it returns
DecodeModelProto(b) ==
    DecodeModelFields(b,
        [i |-> 1, state |-> "more",
         model |-> [ir_version |-> 0, has_ir_version |-> FALSE,
                    graph |-> <<>>, has_graph |-> FALSE, metadataProps |-> <<>>]])

Delimited(tag, payload) == <<tag>> \o WriteVarint(Len(payload)) \o payload

\* onnx.StringStringEntryProto.encode
EncodeEntry(entry) ==
    (IF entry.has_key THEN Delimited(Tag.key, TextEncode(entry.key)) ELSE <<>>)
    \o (IF entry.has_value THEN Delimited(Tag.value, TextEncode(entry.value)) ELSE <<>>)

RECURSIVE EncodeProps(_)
EncodeProps(props) ==
    IF props = <<>> THEN <<>>
    ELSE Delimited(Tag.metadata_props, EncodeEntry(Head(props))) \o EncodeProps(Tail(props))

\* onnx.ModelProto.encode(model).finish()
EncodeModelProto(model) ==
    (IF model.has_ir_version THEN <<Tag.ir_version>> \o WriteVarint(model.ir_version) ELSE <<>>)
    \o (IF model.has_graph THEN Delimited(Tag.graph, model.graph) ELSE <<>>)
    \o EncodeProps(model.metadataProps)

\* model.metadataProps.find(prop => prop.key === key): its position, 0 for undefined
FindProp(props, key) ==
    IF {i \in 1..Len(props) : props[i].key = key} = {} THEN 0
    ELSE CHOOSE i \in 1..Len(props) :
             /\ props[i].key = key
             /\ \A j \in 1..(i - 1) : props[j].key # key

\* a write that pushes every written entry, found or not
PutProp_AlwaysPush(props, i, key, value) ==
    Append(props, [key |-> key, value |-> value, has_key |-> TRUE, has_value |-> TRUE])

\* existing_prop.value = raw_metadata[key], or metadataProps.push({key, value})
PutProp(props, i, key, value) ==
    IF i # 0 THEN [props EXCEPT ![i].value = value, ![i].has_value = TRUE]
    ELSE Append(props, [key |-> key, value |-> value, has_key |-> TRUE, has_value |-> TRUE])

\* for (const key in raw_metadata) { find, then overwrite or push }
RECURSIVE AddMetadataProps(_, _)
AddMetadataProps(props, raw_entries) ==
    IF raw_entries = <<>> THEN props
    ELSE AddMetadataProps(
             PutProp(props, FindProp(props, Head(raw_entries).k),
                     Head(raw_entries).k, Head(raw_entries).v.v),
             Tail(raw_entries))

WriteDecodedModel(decoded, raw) ==
    IF decoded.state # "end" THEN Failure("FormatError")
    ELSE [ok |-> TRUE, error |-> "",
          file |-> EncodeModelProto(
                       [decoded.model EXCEPT
                           !.metadataProps = AddMetadataProps(@, raw)])]

\* writeAivmxMetadata from its read of the file on: the bytes of the new file
WriteAivmxFile(aivmx_file_bytes, raw) ==
    WriteDecodedModel(DecodeModelProto(aivmx_file_bytes), raw)

\* if (prop.key && prop.value) raw_metadata[prop.key] = prop.value
RECURSIVE CollectProps(_, _)
CollectProps(props, raw_entries) ==
    IF props = <<>> THEN raw_entries
    ELSE CollectProps(Tail(props),
             IF Head(props).key # <<>> /\ Head(props).value # <<>>
             THEN ObjSet(raw_entries, Head(props).key, JStr(Head(props).value))
             ELSE raw_entries)

ReadDecodedModel(decoded) ==
    IF decoded.state # "end" THEN Failure("FormatError")
    ELSE [ok |-> TRUE, error |-> "",
          raw_metadata |-> JObj(CollectProps(decoded.model.metadataProps, <<>>))]

\* readAivmxMetadata up to its call of the validator: the collected raw_metadata
ReadAivmxRawMetadata(aivmx_file_bytes) ==
    ReadDecodedModel(DecodeModelProto(aivmx_file_bytes))

----------------------------------------------------------------------------
(* Inputs of the AIVMX codec *)

Prop(key, value) == [key |-> key, value |-> value, has_key |-> TRUE, has_value |-> TRUE]

\* the metadata_props lists an input model holds
ExistingProps(i) ==
    CASE i = 0 -> <<>>
      [] i = 1 -> <<Prop(Key.format, Key.pt)>>
      [] i = 2 -> <<Prop(Key.manifest, Text.quoted), Prop(Key.format, Key.pt)>>
      [] i = 3 -> <<Prop(Key.style_vectors, Text.a), Prop(Key.hyper_parameters, Text.json)>>
      [] i = 4 -> <<Prop(<<>>, Text.a), Prop(Key.format, <<>>),
                    [key |-> <<>>, value |-> Text.a, has_key |-> FALSE, has_value |-> TRUE]>>
      [] i = 5 -> <<Prop(Key.manifest, Text.quoted), Prop(Key.format, Key.pt),
                    Prop(Key.manifest, Text.json)>>

NumExistingProps == 5

\* an input model: with or without an ir_version, a graph of some bytes
ModelFile(i, with_version, graph) ==
    EncodeModelProto([ir_version |-> 9, has_ir_version |-> with_version,
                      graph |-> graph, has_graph |-> TRUE,
                      metadataProps |-> ExistingProps(i)])

----------------------------------------------------------------------------
(* SpecAivmx: a caller writes a metadata map into an AIVMX file, then reads *)
(* the written file                                                         *)

InitAivmx ==
    /\ pc = "start"
    /\ \E i \in 0..NumExistingProps, with_version \in BOOLEAN,
          graph \in SeqsUpTo(PayloadBytes, MaxPayloadLen) :
            aivmx_file = ModelFile(i, with_version, graph)
    /\ \E m \in {Text.a, Text.json}, h \in {Text.a, Text.quoted}, sv \in 0..2 :
            raw_metadata = SerializedMetadata(m, h, sv)
    /\ aivm_file = <<>>
    /\ aivm_metadata = Null
    /\ architecture = <<>>
    /\ hyper_parameters_file = Null
    /\ style_vectors_file = Null
    /\ written = Null
    /\ read = Null
    /\ result = Null
    /\ uuid_counter = 0

\* writeAivmxMetadata, resumed after `await aivmx_file.arrayBuffer()`
WriteAivmx ==
    /\ pc = "start"
    /\ written' = WriteAivmxFile(aivmx_file, raw_metadata)
    /\ pc' = "written"
    /\ UNCHANGED <<aivm_file, aivmx_file, raw_metadata, aivm_metadata,
                   architecture, hyper_parameters_file, style_vectors_file, read, result,
                   uuid_counter>>

\* readAivmxMetadata on the file writeAivmxMetadata returned
ReadAivmx ==
    /\ pc = "written"
    /\ written.ok
    /\ read' = ReadAivmxRawMetadata(written.file)
    /\ pc' = "read"
    /\ UNCHANGED <<aivm_file, aivmx_file, raw_metadata, aivm_metadata,
                   architecture, hyper_parameters_file, style_vectors_file, written, result,
                   uuid_counter>>

NextAivmx == WriteAivmx \/ ReadAivmx

SpecAivmx == InitAivmx /\ [][NextAivmx]_vars

\* C3: the map collected from the written graph container is the map
\* collected from the original container with the written entries merged over
\* it, for every metadata_props list, one with a repeated key included.
C3_GraphRoundTrip ==
    pc = "read" =>
        /\ read.ok
        /\ MetadataMap(read.raw_metadata)
             = MergedOver(MetadataMap(JObj(raw_metadata)),
                          MetadataMap(ReadAivmxRawMetadata(aivmx_file).raw_metadata))

\* the metadata_props of the original file hold no key twice
DistinctPropKeys ==
    \A i, j \in 1..Len(DecodeModelProto(aivmx_file).model.metadataProps) :
        DecodeModelProto(aivmx_file).model.metadataProps[i].key
          = DecodeModelProto(aivmx_file).model.metadataProps[j].key => i = j

\* no written value is the empty text
NoEmptyValue == \A i \in 1..Len(raw_metadata) : raw_metadata[i].v.v # <<>>

\* the graph round trip where the original list holds no key twice and no
\* written value is empty
C3_GraphRoundTripDistinct ==
    (DistinctPropKeys /\ NoEmptyValue) => C3_GraphRoundTrip

----------------------------------------------------------------------------
(* Aggregates: { manifest, hyper_parameters, style_vectors }.  Every text   *)
(* is a sequence of code points.  Of the manifest the model keeps           *)
(* manifest_version, name, model_architecture, model_format, uuid, version  *)
(* and speakers; of the hyperparameters model_name, version, train, model   *)
(* and, of data, the properties the library reads or writes.                *)

\* the property names of the manifest and of the hyperparameters, as code points
Field == [manifest_version |-> <<109, 97, 110, 105, 102, 101, 115, 116, 95,
                                 118, 101, 114, 115, 105, 111, 110>>,
          name |-> <<110, 97, 109, 101>>,
          model_architecture |-> <<109, 111, 100, 101, 108, 95, 97, 114, 99,
                                   104, 105, 116, 101, 99, 116, 117, 114,
                                   101>>,
          model_format |-> <<109, 111, 100, 101, 108, 95, 102, 111, 114, 109,
                             97, 116>>,
          uuid |-> <<117, 117, 105, 100>>,
          version |-> <<118, 101, 114, 115, 105, 111, 110>>,
          speakers |-> <<115, 112, 101, 97, 107, 101, 114, 115>>,
          icon |-> <<105, 99, 111, 110>>,
          supported_languages |-> <<115, 117, 112, 112, 111, 114, 116, 101,
                                    100, 95, 108, 97, 110, 103, 117, 97, 103,
                                    101, 115>>,
          local_id |-> <<108, 111, 99, 97, 108, 95, 105, 100>>,
          styles |-> <<115, 116, 121, 108, 101, 115>>,
          voice_samples |-> <<118, 111, 105, 99, 101, 95, 115, 97, 109, 112,
                              108, 101, 115>>,
          audio |-> <<97, 117, 100, 105, 111>>,
          transcript |-> <<116, 114, 97, 110, 115, 99, 114, 105, 112, 116>>,
          model_name |-> <<109, 111, 100, 101, 108, 95, 110, 97, 109, 101>>,
          train |-> <<116, 114, 97, 105, 110>>,
          data |-> <<100, 97, 116, 97>>,
          model |-> <<109, 111, 100, 101, 108>>,
          use_jp_extra |-> <<117, 115, 101, 95, 106, 112, 95, 101, 120, 116,
                             114, 97>>,
          training_files |-> <<116, 114, 97, 105, 110, 105, 110, 103, 95,
                               102, 105, 108, 101, 115>>,
          validation_files |-> <<118, 97, 108, 105, 100, 97, 116, 105, 111,
                                 110, 95, 102, 105, 108, 101, 115>>,
          n_speakers |-> <<110, 95, 115, 112, 101, 97, 107, 101, 114, 115>>,
          num_styles |-> <<110, 117, 109, 95, 115, 116, 121, 108, 101, 115>>,
          spk2id |-> <<115, 112, 107, 50, 105, 100>>,
          style2id |-> <<115, 116, 121, 108, 101, 50, 105, 100>>,
          sampling_rate |-> <<115, 97, 109, 112, 108, 105, 110, 103, 95, 114, 97, 116, 101>>,
          comment |-> <<99, 111, 109, 109, 101, 110, 116>>]

\* the string values the code compares with or assigns, as code points
Lit == [v1_0 |-> <<49, 46, 48>>,
        v1_1 |-> <<49, 46, 49>>,
        v1_0_0 |-> <<49, 46, 48, 46, 48>>,
        StyleBertVITS2 |-> <<83, 116, 121, 108, 101, 45, 66, 101, 114, 116,
                             45, 86, 73, 84, 83, 50>>,
        StyleBertVITS2_JPExtra |-> <<83, 116, 121, 108, 101, 45, 66, 101,
                                     114, 116, 45, 86, 73, 84, 83, 50, 32,
                                     40, 74, 80, 45, 69, 120, 116, 114, 97,
                                     41>>,
        Other |-> <<79, 116, 104, 101, 114>>,
        Safetensors |-> <<83, 97, 102, 101, 116, 101, 110, 115, 111, 114,
                          115>>,
        ONNX |-> <<79, 78, 78, 88>>,
        ja |-> <<106, 97>>,
        en_US |-> <<101, 110, 45, 85, 83>>,
        zh_CN |-> <<122, 104, 45, 67, 78>>,
        Neutral |-> <<78, 101, 117, 116, 114, 97, 108>>,
        Normal |-> <<12494, 12540, 12510, 12523>>,
        ModelName |-> <<77, 111, 100, 101, 108, 32, 78, 97, 109, 101>>,
        train_list |-> <<116, 114, 97, 105, 110, 46, 108, 105, 115, 116>>,
        val_list |-> <<118, 97, 108, 46, 108, 105, 115, 116>>,
        png |-> <<100, 97, 116, 97, 58, 105, 109, 97, 103, 101, 47, 112, 110,
                  103, 59, 98, 97, 115, 101, 54, 52, 44>>,
        jpeg |-> <<100, 97, 116, 97, 58, 105, 109, 97, 103, 101, 47, 106,
                   112, 101, 103, 59, 98, 97, 115, 101, 54, 52, 44>>,
        zero_uuid |-> <<48, 48, 48, 48, 48, 48, 48, 48, 45, 48, 48, 48, 48,
                        45, 48, 48, 48, 48, 45, 48, 48, 48, 48, 45, 48, 48,
                        48, 48, 48, 48, 48, 48, 48, 48, 48, 48>>,
        uuid_stem |-> <<48, 48, 48, 48, 48, 48, 48, 48, 45, 48, 48, 48, 48,
                        45, 52, 48, 48, 48, 45, 56, 48, 48, 48, 45, 48, 48,
                        48, 48, 48, 48, 48, 48, 48, 48, 48, 48>>,
        a |-> <<97>>,
        b |-> <<98>>,
        s |-> <<115>>,
        empty |-> <<>>]

\* a Uint8Array or the content of a File
Bytes(b) == [t |-> "bytes", v |-> b]

\* the concatenation of a sequence of sequences
RECURSIVE Flatten(_)
Flatten(seqs) == IF seqs = <<>> THEN <<>> ELSE Head(seqs) \o Flatten(Tail(seqs))

\* uuid.v4(): the k-th identifier drawn
UuidV4(k) == SubSeq(Lit.uuid_stem, 1, 36 - Len(Digits(k))) \o Digits(k)

\* StyleBertVITS2HyperParametersSchema.parse: the properties the schema
\* names, an unknown one stripped; a z.record keeps the order of its keys
StyleBertVITS2HyperParametersSchema(x) ==
    LET Is(y, type) == y.t = type
        Optional(y, type) == y.t \in {type, "undefined"}
        IsRecord(y) == y.t = "obj" /\ \A i \in 1..Len(y.v) : y.v[i].v.t = "num"
        Record(y) == [i \in 1..Len(y.v) |-> Entry(y.v[i].k, y.v[i].v.v)]
        Data(model_name, version, d) ==
            IF /\ Is(d, "obj")
               /\ Optional(ObjGet(d.v, Field.use_jp_extra), "bool")
               /\ Optional(ObjGet(d.v, Field.training_files), "str")
               /\ Optional(ObjGet(d.v, Field.validation_files), "str")
               /\ Optional(ObjGet(d.v, Field.sampling_rate), "num")
               /\ Is(ObjGet(d.v, Field.n_speakers), "num")
               /\ Is(ObjGet(d.v, Field.num_styles), "num")
               /\ IsRecord(ObjGet(d.v, Field.spk2id))
               /\ IsRecord(ObjGet(d.v, Field.style2id))
            THEN [ok |-> TRUE, error |-> "",
                  value |-> [model_name |-> model_name.v,
                             version |-> version.v,
                             sampling_rate |-> ObjGet(d.v, Field.sampling_rate),
                             use_jp_extra |-> ObjGet(d.v, Field.use_jp_extra),
                             training_files |-> ObjGet(d.v, Field.training_files),
                             validation_files |-> ObjGet(d.v, Field.validation_files),
                             n_speakers |-> ObjGet(d.v, Field.n_speakers).v,
                             num_styles |-> ObjGet(d.v, Field.num_styles).v,
                             spk2id |-> Record(ObjGet(d.v, Field.spk2id)),
                             style2id |-> Record(ObjGet(d.v, Field.style2id))]]
            ELSE Failure("ZodError")
    IN IF /\ Is(x, "obj")
          /\ Is(ObjGet(x.v, Field.model_name), "str")
          /\ Is(ObjGet(x.v, Field.version), "str")
          /\ Is(ObjGet(x.v, Field.train), "obj")
          /\ Is(ObjGet(x.v, Field.model), "obj")
       THEN Data(ObjGet(x.v, Field.model_name), ObjGet(x.v, Field.version),
                 ObjGet(x.v, Field.data))
       ELSE Failure("ZodError")

\* the ids of a name-to-id map
MapIds(map) == {map[i].v : i \in 1..Len(map)}

\* a Set of ids meets an id a second time
HasDuplicateId(map) == \E i, j \in 1..Len(map) : i < j /\ map[i].v = map[j].v

\* loadAndValidateHyperParametersAndStyleVectors; a file is the outcome of
\* JSON.parse on its text, [ok, v]
\* the checks without those for an id that two names share
LoadAndValidateHyperParametersAndStyleVectors_NoDuplicateChecks(model_architecture, hyper_parameters_content, style_vectors_content) ==
    LET Checked(hyper_parameters) ==
            IF hyper_parameters.spk2id = <<>> THEN Failure("NoSpeakers")
            ELSE IF hyper_parameters.style2id = <<>> THEN Failure("NoStyles")
            ELSE IF \E id \in MapIds(hyper_parameters.style2id) : id < 0 \/ id > 31
                 THEN Failure("StyleIdOutOfRange")
            ELSE IF \E id \in MapIds(hyper_parameters.spk2id) : id < 0
                 THEN Failure("SpeakerIdOutOfRange")
            ELSE IF style_vectors_content.t = "null"
                 THEN Failure("NoStyleVectorsFile")
            ELSE [ok |-> TRUE, error |-> "", hyper_parameters |-> hyper_parameters,
                  style_vectors |-> style_vectors_content]
        Validated(schema) ==
            IF schema.ok THEN Checked(schema.value)
            ELSE Failure("HyperParametersFormat")
    IN IF model_architecture \notin {Lit.StyleBertVITS2, Lit.StyleBertVITS2_JPExtra}
       THEN Failure("UnsupportedArchitecture")
       ELSE IF ~hyper_parameters_content.ok THEN Failure("HyperParametersFormat")
       ELSE Validated(StyleBertVITS2HyperParametersSchema(hyper_parameters_content.v))

LoadAndValidateHyperParametersAndStyleVectors(model_architecture, hyper_parameters_content, style_vectors_content) ==
    LET Checked(hyper_parameters) ==
            IF hyper_parameters.spk2id = <<>> THEN Failure("NoSpeakers")
            ELSE IF hyper_parameters.style2id = <<>> THEN Failure("NoStyles")
            ELSE IF HasDuplicateId(hyper_parameters.spk2id)
                 THEN Failure("DuplicateSpeakerId")
            ELSE IF HasDuplicateId(hyper_parameters.style2id)
                 THEN Failure("DuplicateStyleId")
            ELSE IF \E id \in MapIds(hyper_parameters.style2id) : id < 0 \/ id > 31
                 THEN Failure("StyleIdOutOfRange")
            ELSE IF \E id \in MapIds(hyper_parameters.spk2id) : id < 0
                 THEN Failure("SpeakerIdOutOfRange")
            ELSE IF style_vectors_content.t = "null"
                 THEN Failure("NoStyleVectorsFile")
            ELSE [ok |-> TRUE, error |-> "", hyper_parameters |-> hyper_parameters,
                  style_vectors |-> style_vectors_content]
        Validated(schema) ==
            IF schema.ok THEN Checked(schema.value)
            ELSE Failure("HyperParametersFormat")
    IN IF model_architecture \notin {Lit.StyleBertVITS2, Lit.StyleBertVITS2_JPExtra}
       THEN Failure("UnsupportedArchitecture")
       ELSE IF ~hyper_parameters_content.ok THEN Failure("HyperParametersFormat")
       ELSE Validated(StyleBertVITS2HyperParametersSchema(hyper_parameters_content.v))

\* use_jp_extra ? ['ja'] : ['ja', 'en-US', 'zh-CN']
SupportedLanguages(hyper_parameters) ==
    IF Truthy(hyper_parameters.use_jp_extra) THEN <<Lit.ja>>
    ELSE <<Lit.ja, Lit.en_US, Lit.zh_CN>>

\* use_jp_extra ? 'Style-Bert-VITS2 (JP-Extra)' : 'Style-Bert-VITS2'
ModelArchitecture(hyper_parameters) ==
    IF Truthy(hyper_parameters.use_jp_extra) THEN Lit.StyleBertVITS2_JPExtra
    ELSE Lit.StyleBertVITS2

\* a rule that renames "Neutral" whatever the other keys of style2id are
NewStyleName_Always(style_name, style2id) ==
    IF style_name = Lit.Neutral THEN Lit.Normal ELSE style_name

\* "Neutral" becomes "ノーマル" unless style2id has the key "ノーマル"
NewStyleName(style_name, style2id) ==
    IF style_name = Lit.Neutral /\ Lit.Normal \notin ObjKeys(style2id)
    THEN Lit.Normal
    ELSE style_name

\* a style created from a key of style2id
NewStyle(style_name, style_id, style2id) ==
    [name |-> NewStyleName(style_name, style2id), icon |-> Null,
     local_id |-> style_id, voice_samples |-> <<>>]

\* DEFAULT_ICON_DATA_URL
DefaultIcon == Lit.png \o <<65, 65, 61, 61>>

\* a speaker whose name is the identifier drawn for it
GeneratedSpeaker_UuidAsName(hyper_parameters, speaker_id, speaker_uuid) ==
    [name |-> speaker_uuid,
     icon |-> DefaultIcon,
     supported_languages |-> SupportedLanguages(hyper_parameters),
     uuid |-> speaker_uuid,
     local_id |-> speaker_id,
     styles |-> [style_id \in 1..Len(hyper_parameters.style2id) |->
                    NewStyle(hyper_parameters.style2id[style_id].k, style_id - 1,
                             hyper_parameters.style2id)]]

\* the callback of Object.keys(spk2id).map((speaker_name, speaker_id) => ...):
\* speaker_id and style_id are the positions of the keys, from 0
GeneratedSpeaker(hyper_parameters, speaker_id, speaker_uuid) ==
    [name |-> hyper_parameters.spk2id[speaker_id + 1].k,
     icon |-> DefaultIcon,
     supported_languages |-> SupportedLanguages(hyper_parameters),
     uuid |-> speaker_uuid,
     local_id |-> speaker_id,
     styles |-> [style_id \in 1..Len(hyper_parameters.style2id) |->
                    NewStyle(hyper_parameters.style2id[style_id].k, style_id - 1,
                             hyper_parameters.style2id)]]

\* generateAivmMetadata, with `drawn` identifiers drawn before the call
GenerateAivmMetadata(model_architecture, hyper_parameters_content, style_vectors_content, drawn) ==
    LET Generated(loaded) ==
            IF ~loaded.ok THEN loaded
            ELSE [ok |-> TRUE, error |-> "",
                  uuids |-> 1 + Len(loaded.hyper_parameters.spk2id),
                  aivm_metadata |->
                    [manifest |->
                       [manifest_version |-> Lit.v1_0,
                        name |-> loaded.hyper_parameters.model_name,
                        model_architecture |-> ModelArchitecture(loaded.hyper_parameters),
                        model_format |-> Lit.Safetensors,
                        uuid |-> UuidV4(drawn + 1),
                        version |-> Lit.v1_0_0,
                        speakers |->
                          [i \in 1..Len(loaded.hyper_parameters.spk2id) |->
                             GeneratedSpeaker(loaded.hyper_parameters, i - 1,
                                              UuidV4(drawn + 1 + i))]],
                     hyper_parameters |-> loaded.hyper_parameters,
                     style_vectors |-> loaded.style_vectors]]
    IN Generated(LoadAndValidateHyperParametersAndStyleVectors(
                     model_architecture, hyper_parameters_content,
                     style_vectors_content))

\* the styles of a speaker that update keeps, each under the name the new
\* style2id has for its id, then the styles it adds
UpdatedStyles_Renamed(existing_styles, style2id) ==
    LET Kept(existing_style) == existing_style.local_id \in MapIds(style2id)
        NewName(local_id) ==
            style2id[CHOOSE i \in 1..Len(style2id) : style2id[i].v = local_id].k
        Renamed(kept) == [i \in 1..Len(kept) |-> [kept[i] EXCEPT !.name = NewName(kept[i].local_id)]]
        processed == {existing_styles[i].local_id : i \in 1..Len(existing_styles)}
                         \cap MapIds(style2id)
        Added(entry) == entry.v \notin processed
        Created(added) ==
            [i \in 1..Len(added) |-> NewStyle(added[i].k, added[i].v, style2id)]
    IN Renamed(SelectSeq(existing_styles, Kept)) \o Created(SelectSeq(style2id, Added))

\* the styles of a speaker that update keeps, and none added
UpdatedStyles_KeptOnly(existing_styles, style2id) ==
    LET Kept(existing_style) == existing_style.local_id \in MapIds(style2id)
    IN SelectSeq(existing_styles, Kept)

\* the styles of a speaker that update keeps, then the styles it adds
UpdatedStyles(existing_styles, style2id) ==
    LET Kept(existing_style) == existing_style.local_id \in MapIds(style2id)
        processed == {existing_styles[i].local_id : i \in 1..Len(existing_styles)}
                         \cap MapIds(style2id)
        Added(entry) == entry.v \notin processed
        Created(added) ==
            [i \in 1..Len(added) |-> NewStyle(added[i].k, added[i].v, style2id)]
    IN SelectSeq(existing_styles, Kept) \o Created(SelectSeq(style2id, Added))

\* warnings that report a change of languages for every retained speaker
SpeakerWarnings_AlwaysLanguages(existing_speaker, hyper_parameters) ==
    IF existing_speaker.local_id \notin MapIds(hyper_parameters.spk2id)
    THEN << <<"SpeakerRemoved", existing_speaker.name, <<>>, existing_speaker.local_id>> >>
    ELSE << <<"LanguagesChanged", existing_speaker.name, <<>>, 0>> >>

\* the warnings update pushes while it visits one existing speaker
SpeakerWarnings(existing_speaker, hyper_parameters) ==
    LET Removed(existing_style) ==
            existing_style.local_id \notin MapIds(hyper_parameters.style2id)
        processed == {existing_speaker.styles[i].local_id :
                         i \in 1..Len(existing_speaker.styles)}
                     \cap MapIds(hyper_parameters.style2id)
        Added(entry) == entry.v \notin processed
        RemovedWarnings(removed) ==
            [i \in 1..Len(removed) |->
                <<"StyleRemoved", existing_speaker.name, removed[i].name,
                  removed[i].local_id>>]
        AddedWarnings(added) ==
            [i \in 1..Len(added) |->
                <<"StyleAdded", existing_speaker.name, added[i].k, added[i].v>>]
    IN IF existing_speaker.local_id \notin MapIds(hyper_parameters.spk2id)
       THEN << <<"SpeakerRemoved", existing_speaker.name, <<>>,
                 existing_speaker.local_id>> >>
       ELSE RemovedWarnings(SelectSeq(existing_speaker.styles, Removed))
            \o AddedWarnings(SelectSeq(hyper_parameters.style2id, Added))
            \o (IF existing_speaker.supported_languages
                     # SupportedLanguages(hyper_parameters)
                THEN << <<"LanguagesChanged", existing_speaker.name, <<>>, 0>> >>
                ELSE <<>>)

\* an update that matches speakers by local_id and gives each kept speaker
\* the name the new spk2id has for its id
UpdatedSpeakers_Renamed(existing_speakers, hyper_parameters, drawn) ==
    LET Kept(existing_speaker) ==
            existing_speaker.local_id \in MapIds(hyper_parameters.spk2id)
        NewName(local_id) ==
            hyper_parameters.spk2id[CHOOSE i \in 1..Len(hyper_parameters.spk2id) :
                                       hyper_parameters.spk2id[i].v = local_id].k
        Updated(kept) ==
            [i \in 1..Len(kept) |->
                [kept[i] EXCEPT !.name = NewName(kept[i].local_id),
                                !.styles = UpdatedStyles(@, hyper_parameters.style2id)]]
    IN Updated(SelectSeq(existing_speakers, Kept))

\* updated_speakers: the existing speakers whose local_id the new spk2id
\* holds, in their order, then a new speaker for every other id of spk2id
UpdatedSpeakers(existing_speakers, hyper_parameters, drawn) ==
    LET Kept(existing_speaker) ==
            existing_speaker.local_id \in MapIds(hyper_parameters.spk2id)
        processed == {existing_speakers[i].local_id : i \in 1..Len(existing_speakers)}
                     \cap MapIds(hyper_parameters.spk2id)
        Added(entry) == entry.v \notin processed
        Updated(kept) ==
            [i \in 1..Len(kept) |->
                [kept[i] EXCEPT
                    !.supported_languages =
                        IF @ # SupportedLanguages(hyper_parameters)
                        THEN SupportedLanguages(hyper_parameters) ELSE @,
                    !.styles = UpdatedStyles(@, hyper_parameters.style2id)]]
        Created(added) ==
            [i \in 1..Len(added) |->
                [name |-> added[i].k,
                 icon |-> DefaultIcon,
                 supported_languages |-> SupportedLanguages(hyper_parameters),
                 uuid |-> UuidV4(drawn + i),
                 local_id |-> added[i].v,
                 styles |-> [j \in 1..Len(hyper_parameters.style2id) |->
                               NewStyle(hyper_parameters.style2id[j].k,
                                        hyper_parameters.style2id[j].v,
                                        hyper_parameters.style2id)]]]
    IN Updated(SelectSeq(existing_speakers, Kept))
       \o Created(SelectSeq(hyper_parameters.spk2id, Added))

\* the warnings of update, in the order it pushes them
UpdateWarnings(existing_speakers, hyper_parameters) ==
    LET processed == {existing_speakers[i].local_id : i \in 1..Len(existing_speakers)}
                     \cap MapIds(hyper_parameters.spk2id)
        Added(entry) == entry.v \notin processed
        AddedWarnings(added) ==
            [i \in 1..Len(added) |-> <<"SpeakerAdded", added[i].k, <<>>, added[i].v>>]
    IN Flatten([i \in 1..Len(existing_speakers) |->
                   SpeakerWarnings(existing_speakers[i], hyper_parameters)])
       \o AddedWarnings(SelectSeq(hyper_parameters.spk2id, Added))

\* an update that keeps the matching speakers, adds none and returns
\* whatever is left
UpdateAivmMetadata_KeptOnly(existing_metadata, hyper_parameters_content, style_vectors_content, drawn) ==
    LET Kept(existing_speaker) ==
            existing_speaker.local_id
                \in MapIds(StyleBertVITS2HyperParametersSchema(hyper_parameters_content.v).value.spk2id)
    IN IF ~hyper_parameters_content.ok
          \/ ~StyleBertVITS2HyperParametersSchema(hyper_parameters_content.v).ok
       THEN Failure("HyperParametersFormat")
       ELSE [ok |-> TRUE, error |-> "", uuids |-> 0, warnings |-> <<>>,
             updated_metadata |->
               [manifest |->
                  [existing_metadata.manifest EXCEPT
                      !.speakers = SelectSeq(@, Kept)],
                hyper_parameters |->
                    StyleBertVITS2HyperParametersSchema(hyper_parameters_content.v).value,
                style_vectors |-> style_vectors_content]]

\* updateAivmMetadata, with `drawn` identifiers drawn before the call
UpdateAivmMetadata(existing_metadata, hyper_parameters_content, style_vectors_content, drawn) ==
    LET Returned(loaded, updated_speakers) ==
            IF updated_speakers = <<>> THEN Failure("NoSpeakersLeft")
            ELSE IF \E i \in 1..Len(updated_speakers) : updated_speakers[i].styles = <<>>
                 THEN Failure("NoStylesLeft")
            ELSE [ok |-> TRUE, error |-> "",
                  uuids |-> Cardinality(MapIds(loaded.hyper_parameters.spk2id)
                                \ {existing_metadata.manifest.speakers[i].local_id :
                                      i \in 1..Len(existing_metadata.manifest.speakers)}),
                  updated_metadata |->
                    [manifest |->
                       [existing_metadata.manifest EXCEPT
                           !.model_architecture = ModelArchitecture(loaded.hyper_parameters),
                           !.speakers = updated_speakers],
                     hyper_parameters |-> loaded.hyper_parameters,
                     style_vectors |-> loaded.style_vectors],
                  warnings |-> UpdateWarnings(existing_metadata.manifest.speakers,
                                              loaded.hyper_parameters)]
        Updated(loaded) ==
            IF ~loaded.ok THEN loaded
            ELSE Returned(loaded,
                          UpdatedSpeakers(existing_metadata.manifest.speakers,
                                          loaded.hyper_parameters, drawn))
    IN Updated(LoadAndValidateHyperParametersAndStyleVectors(
                   existing_metadata.manifest.model_architecture,
                   hyper_parameters_content, style_vectors_content))

\* Object.keys(map).find(key => map[key] === local_id): the first key, or undefined
FindKey(map, local_id) ==
    LET hits == {i \in 1..Len(map) : map[i].v = local_id}
    IN IF hits = {} THEN Undefined
       ELSE JStr(map[CHOOSE i \in hits : \A j \in hits : i <= j].k)

\* for (const item of items) { if (old_key) new_map[item.name] = item.local_id }
RECURSIVE AppliedMap(_, _, _)
AppliedMap(items, old_map, new_map) ==
    IF items = <<>> THEN new_map
    ELSE AppliedMap(Tail(items), old_map,
                    IF Truthy(FindKey(old_map, Head(items).local_id))
                    THEN ObjSet(new_map, Head(items).name, Head(items).local_id)
                    ELSE new_map)

\* applyAivmManifestToHyperParameters with the test for style_vectors after
\* the assignments of model_name, training_files and validation_files
ApplyAivmManifestToHyperParameters_AssignFirst(metadata) ==
    IF metadata.style_vectors.t = "undefined"
    THEN [ok |-> FALSE, error |-> "NoStyleVectors",
          aivm_metadata |->
            [metadata EXCEPT
                !.hyper_parameters =
                    [@ EXCEPT !.model_name = metadata.manifest.name,
                              !.training_files = JStr(Lit.train_list),
                              !.validation_files = JStr(Lit.val_list)]]]
    ELSE [ok |-> TRUE, error |-> "", aivm_metadata |-> metadata]

\* applyAivmManifestToHyperParameters: the aggregate as the call leaves it
ApplyAivmManifestToHyperParameters(metadata) ==
    LET Applied(new_spk2id, new_style2id) ==
            [ok |-> TRUE, error |-> "",
             aivm_metadata |->
               [metadata EXCEPT
                   !.hyper_parameters =
                       [@ EXCEPT !.model_name = metadata.manifest.name,
                                 !.training_files = JStr(Lit.train_list),
                                 !.validation_files = JStr(Lit.val_list),
                                 !.spk2id = new_spk2id,
                                 !.n_speakers = Len(new_spk2id),
                                 !.style2id = new_style2id,
                                 !.num_styles = Len(new_style2id)]]]
    IN IF metadata.manifest.model_architecture
            \notin {Lit.StyleBertVITS2, Lit.StyleBertVITS2_JPExtra}
       THEN [ok |-> TRUE, error |-> "", aivm_metadata |-> metadata]
       ELSE IF metadata.style_vectors.t = "undefined"
       THEN [ok |-> FALSE, error |-> "NoStyleVectors", aivm_metadata |-> metadata]
       ELSE Applied(AppliedMap(metadata.manifest.speakers,
                               metadata.hyper_parameters.spk2id, <<>>),
                    AppliedMap(Flatten([i \in 1..Len(metadata.manifest.speakers) |->
                                          metadata.manifest.speakers[i].styles]),
                               metadata.hyper_parameters.style2id, <<>>))

----------------------------------------------------------------------------
(* Serialization and validation of an aggregate *)

\* A-Z a-z 0-9 + /
Base64Alphabet ==
    [i \in 1..64 |-> CASE i <= 26 -> 64 + i
                       [] i <= 52 -> 70 + i
                       [] i <= 62 -> i - 5
                       [] i = 63 -> 43
                       [] OTHER -> 47]

\* Base64.fromUint8Array
Base64FromUint8Array(b) ==
    LET At(i) == IF i <= Len(b) THEN b[i] ELSE 0
        Group(i) ==
            <<Base64Alphabet[(At(i) \div 4) + 1],
              Base64Alphabet[(At(i) % 4) * 16 + (At(i + 1) \div 16) + 1],
              IF i + 1 <= Len(b)
              THEN Base64Alphabet[(At(i + 1) % 16) * 4 + (At(i + 2) \div 64) + 1]
              ELSE 61,
              IF i + 2 <= Len(b) THEN Base64Alphabet[(At(i + 2) % 64) + 1] ELSE 61>>
    IN Flatten([g \in 1..((Len(b) + 2) \div 3) |-> Group(3 * g - 2)])

\* Base64.toUint8Array: '-' and '_' read as '+' and '/', every other
\* character outside the alphabet dropped; [ok, v]
Base64ToUint8Array(text) ==
    LET InAlphabet(c) == \E i \in 1..64 : Base64Alphabet[i] = c
        Value(c) == (CHOOSE i \in 1..64 : Base64Alphabet[i] = c) - 1
        UnURI(s) == [i \in 1..Len(s) |-> CASE s[i] = 45 -> 43 [] s[i] = 95 -> 47
                                            [] OTHER -> s[i]]
        Group(s, i) ==
            <<Value(s[i]) * 4 + (Value(s[i + 1]) \div 16)>>
            \o (IF i + 2 <= Len(s)
                THEN <<(Value(s[i + 1]) % 16) * 16 + (Value(s[i + 2]) \div 4)>>
                ELSE <<>>)
            \o (IF i + 3 <= Len(s)
                THEN <<(Value(s[i + 2]) % 4) * 64 + Value(s[i + 3])>>
                ELSE <<>>)
        Decoded(s) ==
            IF Len(s) % 4 = 1 THEN [ok |-> FALSE, v |-> <<>>]
            ELSE [ok |-> TRUE,
                  v |-> Flatten([g \in 1..((Len(s) + 3) \div 4) |-> Group(s, 4 * g - 3)])]
    IN Decoded(SelectSeq(UnURI(text), InAlphabet))

\* the manifest as the value JSON.stringify is given
ManifestDocument(manifest) ==
    LET Style(style) ==
            JObj(<<Entry(Field.name, JStr(style.name)),
                   Entry(Field.icon, style.icon),
                   Entry(Field.local_id, JNum(style.local_id)),
                   Entry(Field.voice_samples, JArr(style.voice_samples))>>)
        Speaker(speaker) ==
            JObj(<<Entry(Field.name, JStr(speaker.name)),
                   Entry(Field.icon, JStr(speaker.icon)),
                   Entry(Field.supported_languages,
                         JArr([i \in 1..Len(speaker.supported_languages) |->
                                  JStr(speaker.supported_languages[i])])),
                   Entry(Field.uuid, JStr(speaker.uuid)),
                   Entry(Field.local_id, JNum(speaker.local_id)),
                   Entry(Field.styles,
                         JArr([i \in 1..Len(speaker.styles) |-> Style(speaker.styles[i])]))>>)
    IN JObj(<<Entry(Field.manifest_version, JStr(manifest.manifest_version)),
              Entry(Field.name, JStr(manifest.name)),
              Entry(Field.model_architecture, JStr(manifest.model_architecture)),
              Entry(Field.model_format, JStr(manifest.model_format)),
              Entry(Field.uuid, JStr(manifest.uuid)),
              Entry(Field.version, JStr(manifest.version)),
              Entry(Field.speakers,
                    JArr([i \in 1..Len(manifest.speakers) |->
                             Speaker(manifest.speakers[i])]))>>)

\* the hyperparameters as the value JSON.stringify is given
HyperParametersDocument(hyper_parameters) ==
    LET Record(map) == JObj([i \in 1..Len(map) |-> Entry(map[i].k, JNum(map[i].v))])
        IsPresent(entry) == entry.v.t # "undefined"
        Present(entries) == SelectSeq(entries, IsPresent)
    IN JObj(<<Entry(Field.model_name, JStr(hyper_parameters.model_name)),
              Entry(Field.version, JStr(hyper_parameters.version)),
              Entry(Field.train, JObj(<<>>)),
              Entry(Field.data,
                    JObj(Present(
                        <<Entry(Field.use_jp_extra, hyper_parameters.use_jp_extra),
                          Entry(Field.training_files, hyper_parameters.training_files),
                          Entry(Field.validation_files, hyper_parameters.validation_files),
                          Entry(Field.sampling_rate, hyper_parameters.sampling_rate),
                          Entry(Field.n_speakers, JNum(hyper_parameters.n_speakers)),
                          Entry(Field.spk2id, Record(hyper_parameters.spk2id)),
                          Entry(Field.num_styles, JNum(hyper_parameters.num_styles)),
                          Entry(Field.style2id, Record(hyper_parameters.style2id))>>))),
              Entry(Field.model, JObj(<<>>))>>)

\* serializeAivmMetadata: the flat map of the aggregate
SerializeAivmMetadata(metadata) ==
    <<Entry(Key.manifest, JStr(JSONStringify(ManifestDocument(metadata.manifest)))),
      Entry(Key.hyper_parameters,
            JStr(JSONStringify(HyperParametersDocument(metadata.hyper_parameters))))>>
    \o (IF metadata.style_vectors.t = "undefined" THEN <<>>
        ELSE <<Entry(Key.style_vectors,
                     JStr(Base64FromUint8Array(metadata.style_vectors.v)))>>)

\* AivmManifestSchema.parse: the properties the schema names, an unknown one
\* stripped, a missing style icon or voice_samples list set to its default
AivmManifestSchema(x) ==
    LET Get(o, f) == ObjGet(o.v, f)
        IsText(y, min, max) == y.t = "str" /\ Len(y.v) >= min /\ Len(y.v) <= max
        IsHex(c) == (c >= 48 /\ c <= 57) \/ (c >= 65 /\ c <= 70) \/ (c >= 97 /\ c <= 102)
        IsUuid(y) ==
            /\ y.t = "str"
            /\ Len(y.v) = 36
            /\ \A i \in 1..36 : IF i \in {9, 14, 19, 24} THEN y.v[i] = Ch.minus
                                  ELSE IsHex(y.v[i])
        IsDataUrl(y) ==
            /\ y.t = "str"
            /\ \E prefix \in {Lit.png, Lit.jpeg} :
                  /\ Len(y.v) > Len(prefix)
                  /\ SubSeq(y.v, 1, Len(prefix)) = prefix
                  /\ \A i \in (Len(prefix) + 1)..Len(y.v) :
                        y.v[i] = 61 \/ \E k \in 1..64 : Base64Alphabet[k] = y.v[i]
        IsVersion(y) ==
            /\ y.t = "str"
            /\ Len(y.v) = 5
            /\ \A i \in 1..5 : IF i \in {2, 4} THEN y.v[i] = 46 ELSE IsDigit(y.v[i])
        IsLanguage(y) ==
            /\ y.t = "str"
            /\ Len(y.v) >= 2
            /\ \A i \in 1..2 : y.v[i] >= 97 /\ y.v[i] <= 122
        IsSample(y) ==
            /\ y.t = "obj"
            /\ Get(y, Field.audio).t = "str"
            /\ Get(y, Field.transcript).t = "str"
            /\ Get(y, Field.transcript).v # <<>>
        AreSamples(y) == y.t = "arr" /\ \A i \in 1..Len(y.v) : IsSample(y.v[i])
        AreLanguages(y) == y.t = "arr" /\ \A i \in 1..Len(y.v) : IsLanguage(y.v[i])
        IsStyle(y) ==
            /\ y.t = "obj"
            /\ IsText(Get(y, Field.name), 1, 20)
            /\ Get(y, Field.icon).t \in {"undefined", "null"} \/ IsDataUrl(Get(y, Field.icon))
            /\ Get(y, Field.local_id).t = "num"
            /\ Get(y, Field.local_id).v >= 0
            /\ Get(y, Field.local_id).v <= 31
            /\ \/ Get(y, Field.voice_samples).t = "undefined"
               \/ AreSamples(Get(y, Field.voice_samples))
        AreStyles(y) == y.t = "arr" /\ \A i \in 1..Len(y.v) : IsStyle(y.v[i])
        IsSpeaker(y) ==
            /\ y.t = "obj"
            /\ IsText(Get(y, Field.name), 1, 80)
            /\ IsDataUrl(Get(y, Field.icon))
            /\ AreLanguages(Get(y, Field.supported_languages))
            /\ IsUuid(Get(y, Field.uuid))
            /\ Get(y, Field.local_id).t = "num"
            /\ Get(y, Field.local_id).v >= 0
            /\ AreStyles(Get(y, Field.styles))
        Style(y) ==
            [name |-> Get(y, Field.name).v,
             icon |-> IF Get(y, Field.icon).t = "undefined" THEN Null ELSE Get(y, Field.icon),
             local_id |-> Get(y, Field.local_id).v,
             voice_samples |-> IF Get(y, Field.voice_samples).t = "undefined" THEN <<>>
                               ELSE Get(y, Field.voice_samples).v]
        Speaker(y) ==
            [name |-> Get(y, Field.name).v,
             icon |-> Get(y, Field.icon).v,
             supported_languages |->
                 [i \in 1..Len(Get(y, Field.supported_languages).v) |->
                     Get(y, Field.supported_languages).v[i].v],
             uuid |-> Get(y, Field.uuid).v,
             local_id |-> Get(y, Field.local_id).v,
             styles |-> [i \in 1..Len(Get(y, Field.styles).v) |->
                           Style(Get(y, Field.styles).v[i])]]
    IN IF /\ x.t = "obj"
          /\ Get(x, Field.manifest_version).t = "str"
          /\ Get(x, Field.manifest_version).v = Lit.v1_0
          /\ IsText(Get(x, Field.name), 1, 80)
          /\ Get(x, Field.model_architecture).t = "str"
          /\ Get(x, Field.model_architecture).v
                \in {Lit.StyleBertVITS2, Lit.StyleBertVITS2_JPExtra}
          /\ Get(x, Field.model_format).t = "str"
          /\ Get(x, Field.model_format).v \in {Lit.Safetensors, Lit.ONNX}
          /\ IsUuid(Get(x, Field.uuid))
          /\ IsVersion(Get(x, Field.version))
          /\ Get(x, Field.speakers).t = "arr"
          /\ \A i \in 1..Len(Get(x, Field.speakers).v) :
                IsSpeaker(Get(x, Field.speakers).v[i])
       THEN [ok |-> TRUE, error |-> "",
             value |-> [manifest_version |-> Get(x, Field.manifest_version).v,
                        name |-> Get(x, Field.name).v,
                        model_architecture |-> Get(x, Field.model_architecture).v,
                        model_format |-> Get(x, Field.model_format).v,
                        uuid |-> Get(x, Field.uuid).v,
                        version |-> Get(x, Field.version).v,
                        speakers |-> [i \in 1..Len(Get(x, Field.speakers).v) |->
                                        Speaker(Get(x, Field.speakers).v[i])]]]
       ELSE Failure("ZodError")

\* validateAivmMetadata
ValidateAivmMetadata(raw) ==
    LET StyleVectors(text) ==
            IF ~Truthy(text) THEN [ok |-> TRUE, v |-> Undefined]
            ELSE IF Base64ToUint8Array(text.v).ok
                 THEN [ok |-> TRUE, v |-> Bytes(Base64ToUint8Array(text.v).v)]
            ELSE [ok |-> FALSE, v |-> Undefined]
        Validated(manifest, hyper_parameters, style_vectors) ==
            IF ~style_vectors.ok THEN Failure("StyleVectorsDecode")
            ELSE [ok |-> TRUE, error |-> "",
                  aivm_metadata |-> [manifest |-> manifest,
                                     hyper_parameters |-> hyper_parameters,
                                     style_vectors |-> style_vectors.v]]
        \* the error thrown for another architecture is thrown inside the
        \* try, and leaves as the format error the catch throws
        WithHyperParameters(manifest, parsed) ==
            IF \/ manifest.model_architecture
                    \notin {Lit.StyleBertVITS2, Lit.StyleBertVITS2_JPExtra}
               \/ ~parsed.ok
               \/ ~StyleBertVITS2HyperParametersSchema(parsed.v).ok
            THEN Failure("HyperParametersFormat")
            ELSE Validated(manifest, StyleBertVITS2HyperParametersSchema(parsed.v).value,
                           StyleVectors(ObjGet(raw, Key.style_vectors)))
        WithManifest(manifest) ==
            IF ~Truthy(ObjGet(raw, Key.hyper_parameters))
            THEN Failure("HyperParametersNotFound")
            ELSE WithHyperParameters(manifest,
                                     JSONParse(ObjGet(raw, Key.hyper_parameters).v))
        WithParsed(parsed) ==
            IF ~parsed.ok \/ ~AivmManifestSchema(parsed.v).ok
            THEN Failure("ManifestFormat")
            ELSE WithManifest(AivmManifestSchema(parsed.v).value)
    IN IF ~Truthy(ObjGet(raw, Key.manifest)) THEN Failure("ManifestNotFound")
       ELSE WithParsed(JSONParse(ObjGet(raw, Key.manifest).v))

----------------------------------------------------------------------------
(* Inputs of the operations on aggregates *)

\* the largest id of the enumerated single-entry maps and stored manifests
MaxLocalId == 1

\* spk2id maps: empty, with a negative id, with the empty name, with an id
\* twice, with ids in and out of the order of the keys
SpeakerMaps ==
    {<<>>, <<Entry(Lit.a, -1)>>, <<Entry(Lit.empty, 0)>>, <<Entry(Lit.b, 0)>>,
     <<Entry(Lit.a, 0), Entry(Lit.b, 0)>>, <<Entry(Lit.a, 0), Entry(Lit.b, 1)>>,
     <<Entry(Lit.a, 1), Entry(Lit.b, 0)>>}
    \cup {<<Entry(Lit.a, id)>> : id \in 0..MaxLocalId}

\* style2id maps: empty, with an id above 31, with an id twice, with
\* "Neutral" alone and next to "ノーマル"
StyleMaps ==
    {<<>>, <<Entry(Lit.s, 32)>>, <<Entry(Lit.empty, 0)>>, <<Entry(Lit.Normal, 31)>>,
     <<Entry(Lit.Neutral, 0), Entry(Lit.Normal, 0)>>,
     <<Entry(Lit.Neutral, 0), Entry(Lit.Normal, 1)>>,
     <<Entry(Lit.Neutral, 1), Entry(Lit.Normal, 0)>>,
     <<Entry(Lit.s, 1), Entry(Lit.Neutral, 0)>>}
    \cup {<<Entry(Lit.Neutral, id)>> : id \in 0..MaxLocalId}

\* the hyperparameters a file of the given maps holds
HyperParametersOf(use_jp_extra, spk2id, style2id) ==
    [model_name |-> Lit.ModelName, version |-> Lit.v1_0_0,
     sampling_rate |-> Undefined, use_jp_extra |-> JBool(use_jp_extra),
     training_files |-> JStr(Lit.a), validation_files |-> Undefined,
     n_speakers |-> Len(spk2id), num_styles |-> Len(style2id),
     spk2id |-> spk2id, style2id |-> style2id]

\* hyperparameters files, each the outcome of JSON.parse on its text: not
\* JSON, JSON without the required properties, well-formed documents, and
\* documents with a sampling_rate, with a property the schema does not
\* name, and with such a property inside data
HyperParametersFiles ==
    LET InData(document, k, x) ==
            JObj(ObjSet(document.v, Field.data,
                        JObj(ObjSet(ObjGet(document.v, Field.data).v, k, x))))
        WithOthers(document) ==
            {InData(document, Field.sampling_rate, JNum(44100)),
             JObj(ObjSet(document.v, Field.comment, JStr(Lit.a))),
             InData(document, Field.comment, JNum(5))}
    IN
    {[ok |-> FALSE, v |-> Undefined], [ok |-> TRUE, v |-> JObj(<<>>)]}
    \cup {[ok |-> TRUE, v |-> document] :
            document \in WithOthers(HyperParametersDocument(
                HyperParametersOf(FALSE, <<Entry(Lit.a, 0)>>, <<Entry(Lit.Neutral, 0)>>)))}
    \cup {[ok |-> TRUE,
           v |-> HyperParametersDocument(HyperParametersOf(use_jp_extra, spk2id, style2id))] :
            use_jp_extra \in BOOLEAN, spk2id \in SpeakerMaps, style2id \in StyleMaps}

\* style vectors files: none (null), or a file of one byte
StyleVectorsFiles == {Null, Bytes(<<1>>)}

\* a stored speaker
StoredSpeaker(name, local_id, styles) ==
    [name |-> name, icon |-> DefaultIcon, supported_languages |-> <<Lit.ja>>,
     uuid |-> UuidV4(0), local_id |-> local_id, styles |-> styles]

StoredStyle(name, local_id) ==
    [name |-> name, icon |-> Null, local_id |-> local_id, voice_samples |-> <<>>]

\* the speakers lists of stored manifests: empty, without styles, with ids
\* at and beyond the limits, with an id twice, with a name twice
StoredSpeakers ==
    {<<>>,
     <<StoredSpeaker(Lit.a, 0, <<>>)>>,
     <<StoredSpeaker(Lit.a, 0, <<StoredStyle(Lit.s, 31)>>)>>,
     <<StoredSpeaker(Lit.a, 0, <<StoredStyle(Lit.s, 32)>>)>>,
     <<StoredSpeaker(Lit.a, -1, <<StoredStyle(Lit.s, 0)>>)>>,
     <<StoredSpeaker(Lit.a, 0, <<StoredStyle(Lit.s, 0), StoredStyle(Lit.Normal, 0)>>)>>,
     <<StoredSpeaker(Lit.a, 0, <<StoredStyle(Lit.s, 0)>>),
       StoredSpeaker(Lit.b, 0, <<StoredStyle(Lit.s, 0)>>)>>,
     <<StoredSpeaker(Lit.a, 0, <<StoredStyle(Lit.s, 0), StoredStyle(Lit.s, 1)>>),
       StoredSpeaker(Lit.a, 1, <<StoredStyle(Lit.Normal, 0)>>)>>}
    \cup {<<StoredSpeaker(Lit.a, speaker_id, <<StoredStyle(Lit.Normal, style_id)>>)>> :
            speaker_id \in 0..MaxLocalId, style_id \in 0..MaxLocalId}

\* the texts under aivm_manifest: none, empty, not JSON, the JSON of a
\* manifest of another architecture, and the JSON of manifests of version
\* "1.0" and "1.1"
StoredManifests ==
    {Undefined, JStr(<<>>), JStr(<<Ch.lbrace>>),
     JStr(JSONStringify(ManifestDocument(
         [manifest_version |-> Lit.v1_0, name |-> Lit.ModelName,
          model_architecture |-> Lit.Other,
          model_format |-> Lit.Safetensors, uuid |-> Lit.zero_uuid,
          version |-> Lit.v1_0_0,
          speakers |-> <<StoredSpeaker(Lit.a, 0, <<StoredStyle(Lit.s, 0)>>)>>])))}
    \cup {JStr(JSONStringify(ManifestDocument(
              [manifest_version |-> manifest_version, name |-> Lit.ModelName,
               model_architecture |-> Lit.StyleBertVITS2,
               model_format |-> Lit.Safetensors, uuid |-> Lit.zero_uuid,
               version |-> Lit.v1_0_0, speakers |-> speakers]))) :
            manifest_version \in {Lit.v1_0, Lit.v1_1}, speakers \in StoredSpeakers}

\* the texts under aivm_hyper_parameters
StoredHyperParameters ==
    {Undefined, JStr(<<Ch.lbrace>>),
     JStr(JSONStringify(HyperParametersDocument(
         HyperParametersOf(FALSE, <<Entry(Lit.b, 0)>>, <<Entry(Lit.s, 0)>>))))}

\* the flat map with the given values, an undefined one left out
RawMetadata(manifest_text, hyper_parameters_text, style_vectors_text) ==
    LET IsPresent(entry) == entry.v.t # "undefined"
    IN
    SelectSeq(<<Entry(Key.manifest, manifest_text),
                Entry(Key.hyper_parameters, hyper_parameters_text),
                Entry(Key.style_vectors, style_vectors_text)>>,
              IsPresent)

----------------------------------------------------------------------------
(* SpecMetadata: a caller obtains an aggregate from generateAivmMetadata or *)
(* validateAivmMetadata, then generates again from the same files, updates  *)
(* the aggregate from new files, or applies the manifest to the             *)
(* hyperparameters, once and again.  aivm_metadata is the aggregate the     *)
(* caller obtained first, result what the last call returned.               *)

InitMetadata ==
    /\ pc = "start"
    /\ aivm_file = <<>>
    /\ aivmx_file = <<>>
    /\ raw_metadata = <<>>
    /\ aivm_metadata = Null
    /\ architecture = <<>>
    /\ hyper_parameters_file = Null
    /\ style_vectors_file = Null
    /\ written = Null
    /\ read = Null
    /\ result = Null
    /\ uuid_counter = 0

\* validateAivmMetadata(raw_metadata)
Validate ==
    /\ pc = "start"
    /\ \E manifest_text \in StoredManifests,
          hyper_parameters_text \in StoredHyperParameters,
          style_vectors_text \in {Undefined, JStr(Base64FromUint8Array(<<1>>))} :
            raw_metadata' = RawMetadata(manifest_text, hyper_parameters_text,
                                        style_vectors_text)
    /\ result' = ValidateAivmMetadata(raw_metadata')
    /\ pc' = IF result'.ok THEN "validated" ELSE "invalid"
    /\ aivm_metadata' = IF result'.ok THEN result'.aivm_metadata ELSE Null
    /\ UNCHANGED <<aivm_file, aivmx_file, architecture, hyper_parameters_file,
                   style_vectors_file, written, read, uuid_counter>>

\* generateAivmMetadata(model_architecture, hyper_parameters_file, style_vectors_file)
Generate ==
    /\ pc = "start"
    /\ architecture' \in {Lit.StyleBertVITS2_JPExtra, Lit.Other}
    /\ hyper_parameters_file' \in HyperParametersFiles
    /\ style_vectors_file' \in StyleVectorsFiles
    /\ result' = GenerateAivmMetadata(architecture', hyper_parameters_file',
                                      style_vectors_file', uuid_counter)
    /\ pc' = IF result'.ok THEN "generated" ELSE "generate_failed"
    /\ aivm_metadata' = IF result'.ok THEN result'.aivm_metadata ELSE Null
    /\ uuid_counter' = uuid_counter + (IF result'.ok THEN result'.uuids ELSE 0)
    /\ UNCHANGED <<aivm_file, aivmx_file, raw_metadata, written, read>>

\* generateAivmMetadata, a second call with the arguments of the first
GenerateAgain ==
    /\ pc = "generated"
    /\ result' = GenerateAivmMetadata(architecture, hyper_parameters_file,
                                      style_vectors_file, uuid_counter)
    /\ pc' = IF result'.ok THEN "generated_again" ELSE "failed"
    /\ uuid_counter' = uuid_counter + (IF result'.ok THEN result'.uuids ELSE 0)
    /\ UNCHANGED <<aivm_file, aivmx_file, raw_metadata, aivm_metadata,
                   architecture, hyper_parameters_file, style_vectors_file,
                   written, read>>

\* updateAivmMetadata(aivm_metadata, hyper_parameters_file, style_vectors_file)
Update ==
    /\ pc \in {"generated", "validated"}
    /\ hyper_parameters_file' \in HyperParametersFiles
    /\ style_vectors_file' \in StyleVectorsFiles
    /\ result' = UpdateAivmMetadata(aivm_metadata, hyper_parameters_file',
                                    style_vectors_file', uuid_counter)
    /\ pc' = IF result'.ok THEN "updated" ELSE "update_failed"
    /\ uuid_counter' = uuid_counter + (IF result'.ok THEN result'.uuids ELSE 0)
    /\ UNCHANGED <<aivm_file, aivmx_file, raw_metadata, aivm_metadata,
                   architecture, written, read>>

\* applyAivmManifestToHyperParameters on the aggregate the caller holds: the
\* updated one after an update; aivm_metadata becomes the aggregate as the
\* call leaves it
Apply ==
    /\ pc \in {"generated", "validated", "updated"}
    /\ result' = ApplyAivmManifestToHyperParameters(
                     IF pc = "updated" THEN result.updated_metadata ELSE aivm_metadata)
    /\ pc' = IF result'.ok THEN "applied" ELSE "apply_failed"
    /\ aivm_metadata' = result'.aivm_metadata
    /\ UNCHANGED <<aivm_file, aivmx_file, raw_metadata, architecture,
                   hyper_parameters_file, style_vectors_file, written, read,
                   uuid_counter>>

\* applyAivmManifestToHyperParameters a second time in a row; aivm_metadata
\* keeps the aggregate as the first call left it, result has it as the
\* second call leaves it
ApplyAgain ==
    /\ pc = "applied"
    /\ result' = ApplyAivmManifestToHyperParameters(aivm_metadata)
    /\ pc' = IF result'.ok THEN "applied_twice" ELSE "failed"
    /\ UNCHANGED <<aivm_file, aivmx_file, raw_metadata, aivm_metadata,
                   architecture, hyper_parameters_file, style_vectors_file,
                   written, read, uuid_counter>>

NextMetadata == Validate \/ Generate \/ GenerateAgain \/ Update \/ Apply \/ ApplyAgain

SpecMetadata == InitMetadata /\ [][NextMetadata]_vars

----------------------------------------------------------------------------
(* Properties of the operations on aggregates *)

\* the speakers of the aggregate the caller held, and of the updated one
ExistingSpeakers == aivm_metadata.manifest.speakers
UpdatedSpeakersOfResult == result.updated_metadata.manifest.speakers

\* C4: after an update that returned, every existing speaker whose local_id
\* is an id of the new spk2id is in the updated manifest under that local_id
\* with its uuid, icon and name, whatever name the new spk2id gives the id;
\* the manifest's name and uuid are the existing ones.
C4_UpdateConservation ==
    (pc = "updated") =>
        /\ \A i \in 1..Len(ExistingSpeakers) :
             ExistingSpeakers[i].local_id
                 \in MapIds(result.updated_metadata.hyper_parameters.spk2id)
             => \E j \in 1..Len(UpdatedSpeakersOfResult) :
                    /\ UpdatedSpeakersOfResult[j].local_id = ExistingSpeakers[i].local_id
                    /\ UpdatedSpeakersOfResult[j].uuid = ExistingSpeakers[i].uuid
                    /\ UpdatedSpeakersOfResult[j].icon = ExistingSpeakers[i].icon
                    /\ UpdatedSpeakersOfResult[j].name = ExistingSpeakers[i].name
        /\ result.updated_metadata.manifest.name = aivm_metadata.manifest.name
        /\ result.updated_metadata.manifest.uuid = aivm_metadata.manifest.uuid

\* an update kept a speaker whose id the new spk2id gives to another name
C4_Witness ==
    /\ pc = "updated"
    /\ \E i \in 1..Len(ExistingSpeakers) :
         \E k \in 1..Len(result.updated_metadata.hyper_parameters.spk2id) :
            /\ result.updated_metadata.hyper_parameters.spk2id[k].v
                 = ExistingSpeakers[i].local_id
            /\ result.updated_metadata.hyper_parameters.spk2id[k].k
                 # ExistingSpeakers[i].name

\* C5: an update that returns, returns a manifest with at least one speaker
\* and at least one style for every speaker.
C5_UpdatePostcondition ==
    (pc = "updated") =>
        /\ result.ok
        /\ UpdatedSpeakersOfResult # <<>>
        /\ \A j \in 1..Len(UpdatedSpeakersOfResult) :
             UpdatedSpeakersOfResult[j].styles # <<>>

\* an update returned after it dropped every existing speaker and every
\* existing style of a kept id
C5_Witness ==
    /\ pc = "updated"
    /\ \A i \in 1..Len(ExistingSpeakers) :
         ExistingSpeakers[i].local_id
             \notin MapIds(result.updated_metadata.hyper_parameters.spk2id)
    /\ \A i \in 1..Len(ExistingSpeakers) :
         \A j \in 1..Len(ExistingSpeakers[i].styles) :
            ExistingSpeakers[i].styles[j].local_id
                \notin MapIds(result.updated_metadata.hyper_parameters.style2id)

\* C6: every generated speaker has the id of its spk2id entry as local_id,
\* and every generated style the id of its style2id entry.
C6_LocalIdIsMapId ==
    (pc = "generated") =>
        \A i \in 1..Len(aivm_metadata.manifest.speakers) :
            /\ aivm_metadata.manifest.speakers[i].local_id
                 = aivm_metadata.hyper_parameters.spk2id[i].v
            /\ \A j \in 1..Len(aivm_metadata.manifest.speakers[i].styles) :
                 aivm_metadata.manifest.speakers[i].styles[j].local_id
                     = aivm_metadata.hyper_parameters.style2id[j].v

\* the properties of the hyperparameters that apply writes, the maps as sets
SyncedState(hyper_parameters) ==
    [model_name |-> hyper_parameters.model_name,
     training_files |-> hyper_parameters.training_files,
     validation_files |-> hyper_parameters.validation_files,
     spk2id |-> {<<hyper_parameters.spk2id[i].k, hyper_parameters.spk2id[i].v>> :
                   i \in 1..Len(hyper_parameters.spk2id)},
     style2id |-> {<<hyper_parameters.style2id[i].k, hyper_parameters.style2id[i].v>> :
                     i \in 1..Len(hyper_parameters.style2id)},
     n_speakers |-> hyper_parameters.n_speakers,
     num_styles |-> hyper_parameters.num_styles]

\* C7: a second apply in a row leaves the hyperparameters as the first left
\* them.
C7_SyncIdempotent ==
    (pc = "applied_twice") =>
        SyncedState(result.aivm_metadata.hyper_parameters)
            = SyncedState(aivm_metadata.hyper_parameters)

\* the second apply is the identity where no speaker and no style has the
\* empty name
C7_SyncIdempotentNamed ==
    (/\ pc = "applied_twice"
     /\ \A i \in 1..Len(aivm_metadata.manifest.speakers) :
          /\ aivm_metadata.manifest.speakers[i].name # <<>>
          /\ \A j \in 1..Len(aivm_metadata.manifest.speakers[i].styles) :
               aivm_metadata.manifest.speakers[i].styles[j].name # <<>>)
    => C7_SyncIdempotent

\* an aggregate without the identifiers uuid.v4() drew
WithoutUuids(metadata) ==
    [metadata EXCEPT
        !.manifest.uuid = <<>>,
        !.manifest.speakers = [i \in 1..Len(@) |-> [@[i] EXCEPT !.uuid = <<>>]]]

\* C8: a second generate with the arguments of the first returns an
\* aggregate equal to the first in everything but the uuids.
C8_GenerateDeterminism ==
    (pc = "generated_again") =>
        /\ result.ok
        /\ WithoutUuids(result.aivm_metadata) = WithoutUuids(aivm_metadata)

\* a second generate returned two speakers or more under uuids that the
\* first did not draw
C8_Witness ==
    /\ pc = "generated_again"
    /\ Len(aivm_metadata.manifest.speakers) >= 2
    /\ result.aivm_metadata.manifest.uuid # aivm_metadata.manifest.uuid
    /\ \A i \in 1..Len(aivm_metadata.manifest.speakers) :
         result.aivm_metadata.manifest.speakers[i].uuid
             # aivm_metadata.manifest.speakers[i].uuid

\* the names and local ids of the styles of a generated speaker, in order
StyleNamesAndIds(speaker) ==
    [j \in 1..Len(speaker.styles) |->
        <<speaker.styles[j].name, speaker.styles[j].local_id>>]

\* C9: in every generated speaker the style of the key "Neutral" is named
\* "ノーマル" exactly when style2id has no key "ノーマル", and every other
\* style has the name of its key; spk2id {a: 0} with style2id {Neutral: 0}
\* gives one speaker a, local_id 0, with one style ノーマル, local_id 0, and
\* style2id {Neutral: 0, ノーマル: 1} gives the styles Neutral and ノーマル.
C9_NeutralNormalization ==
    (pc = "generated") =>
        /\ \A i \in 1..Len(aivm_metadata.manifest.speakers) :
             /\ Len(aivm_metadata.manifest.speakers[i].styles)
                  = Len(aivm_metadata.hyper_parameters.style2id)
             /\ \A j \in 1..Len(aivm_metadata.hyper_parameters.style2id) :
                  aivm_metadata.manifest.speakers[i].styles[j].name
                    = IF /\ aivm_metadata.hyper_parameters.style2id[j].k = Lit.Neutral
                         /\ \A k \in 1..Len(aivm_metadata.hyper_parameters.style2id) :
                               aivm_metadata.hyper_parameters.style2id[k].k # Lit.Normal
                      THEN Lit.Normal
                      ELSE aivm_metadata.hyper_parameters.style2id[j].k
        /\ (/\ aivm_metadata.hyper_parameters.spk2id = <<[k |-> Lit.a, v |-> 0]>>
            /\ aivm_metadata.hyper_parameters.style2id
                 = <<[k |-> Lit.Neutral, v |-> 0]>>)
           => /\ Len(aivm_metadata.manifest.speakers) = 1
              /\ aivm_metadata.manifest.speakers[1].name = Lit.a
              /\ aivm_metadata.manifest.speakers[1].local_id = 0
              /\ StyleNamesAndIds(aivm_metadata.manifest.speakers[1])
                   = << <<Lit.Normal, 0>> >>
        /\ (/\ aivm_metadata.hyper_parameters.spk2id = <<[k |-> Lit.a, v |-> 0]>>
            /\ aivm_metadata.hyper_parameters.style2id
                 = <<[k |-> Lit.Neutral, v |-> 0], [k |-> Lit.Normal, v |-> 1]>>)
           => /\ Len(aivm_metadata.manifest.speakers) = 1
              /\ StyleNamesAndIds(aivm_metadata.manifest.speakers[1])
                   = << <<Lit.Neutral, 0>>, <<Lit.Normal, 1>> >>

\* generate was given style2id {Neutral: 0, ノーマル: 1} and kept both names
C9_Witness ==
    /\ pc = "generated"
    /\ aivm_metadata.hyper_parameters.spk2id = <<[k |-> Lit.a, v |-> 0]>>
    /\ aivm_metadata.hyper_parameters.style2id
         = <<[k |-> Lit.Neutral, v |-> 0], [k |-> Lit.Normal, v |-> 1]>>
    /\ aivm_metadata.manifest.speakers[1].styles[1].name = Lit.Neutral

\* generate was given style2id {Neutral: 0} and named the style ノーマル
C9_Renamed ==
    /\ pc = "generated"
    /\ aivm_metadata.hyper_parameters.style2id = <<[k |-> Lit.Neutral, v |-> 0]>>
    /\ aivm_metadata.manifest.speakers[1].styles[1].name = Lit.Normal

\* the local ids of a list of speakers or styles are pairwise distinct
DistinctLocalIds(list) ==
    \A i, j \in 1..Len(list) : list[i].local_id = list[j].local_id => i = j

\* C10: the manifest of every aggregate validate returns has version "1.0",
\* one speaker or more with distinct local ids that are not negative, and
\* for every speaker one style or more with distinct local ids in 0..31.
C10_ValidatedInvariants ==
    (pc = "validated") =>
        /\ aivm_metadata.manifest.manifest_version = Lit.v1_0
        /\ aivm_metadata.manifest.speakers # <<>>
        /\ DistinctLocalIds(aivm_metadata.manifest.speakers)
        /\ \A i \in 1..Len(aivm_metadata.manifest.speakers) :
             /\ aivm_metadata.manifest.speakers[i].local_id >= 0
             /\ aivm_metadata.manifest.speakers[i].styles # <<>>
             /\ DistinctLocalIds(aivm_metadata.manifest.speakers[i].styles)
             /\ \A j \in 1..Len(aivm_metadata.manifest.speakers[i].styles) :
                  /\ aivm_metadata.manifest.speakers[i].styles[j].local_id >= 0
                  /\ aivm_metadata.manifest.speakers[i].styles[j].local_id <= 31

\* what the schema does enforce on a validated manifest: the version, and
\* the ranges of the local ids
C10_ValidatedRanges ==
    (pc = "validated") =>
        /\ aivm_metadata.manifest.manifest_version = Lit.v1_0
        /\ \A i \in 1..Len(aivm_metadata.manifest.speakers) :
             /\ aivm_metadata.manifest.speakers[i].local_id >= 0
             /\ \A j \in 1..Len(aivm_metadata.manifest.speakers[i].styles) :
                  /\ aivm_metadata.manifest.speakers[i].styles[j].local_id >= 0
                  /\ aivm_metadata.manifest.speakers[i].styles[j].local_id <= 31

----------------------------------------------------------------------------
(* SpecAivmFile: a caller hands a file of any content to readAivmMetadata   *)
(* or, with a serialized aggregate, to writeAivmMetadata                    *)

\* a read that takes a header without __metadata__ for a file of another format
ReadAivmMetadata_RequireMetadata(aivm_file_bytes) ==
    LET Validated(raw) ==
            IF ~raw.ok THEN raw
            ELSE IF raw.raw_metadata.t = "obj" THEN ValidateAivmMetadata(raw.raw_metadata.v)
            ELSE Failure("FormatError")
    IN Validated(ReadAivmRawMetadata(aivm_file_bytes))

\* readAivmMetadata: the header's __metadata__ handed to the validator, whose
\* first test (!raw_metadata || !raw_metadata['aivm_manifest']) fails every
\* value that is not an object with that key
ReadAivmMetadata(aivm_file_bytes) ==
    LET Validated(raw) ==
            IF ~raw.ok THEN raw
            ELSE IF raw.raw_metadata.t = "obj" THEN ValidateAivmMetadata(raw.raw_metadata.v)
            ELSE Failure("ManifestNotFound")
    IN Validated(ReadAivmRawMetadata(aivm_file_bytes))

\* files of any content: shorter than the size field, with a size beyond
\* the end of the file (by one, by 2^31 and by 2^56), with a header that is
\* not UTF-8, and with each header text before no payload and before one
\* byte; the header texts are not JSON, JSON that is not an object, objects
\* without __metadata__ and with a __metadata__ that is not an object
AivmFiles ==
    LET FileWithHeader(declared, header_text, payload) ==
            SetBigUint64(declared) \o TextEncode(header_text) \o payload
        HeaderTexts ==
            {<<>>, <<Ch.lbrace>>}
            \cup {JSONStringify(x) :
                    x \in {Null, JNum(5), JBool(TRUE), JStr(Text.a), JArr(<<>>), JObj(<<>>),
                           JObj(<<TensorEntry>>),
                           JObj(<<Entry(Key.metadata, Null)>>),
                           JObj(<<Entry(Key.metadata, JNum(5))>>),
                           JObj(<<Entry(Key.metadata, JStr(Text.a))>>),
                           JObj(<<Entry(Key.metadata, JArr(<<>>))>>),
                           JObj(<<Entry(Key.metadata, JObj(<<>>))>>)}}
    IN {<<>>, <<1, 0, 0>>, SetBigUint64(5),
        <<0, 0, 0, 128, 0, 0, 0, 0, Ch.lbrace, Ch.rbrace>>,
        <<0, 0, 0, 0, 0, 0, 0, 1, Ch.lbrace, Ch.rbrace>>,
        SetBigUint64(1) \o <<255>>}
       \cup {FileWithHeader(Len(TextEncode(text)) + extra, text, <<>>) :
               text \in HeaderTexts, extra \in 0..1}
       \cup {FileWithHeader(Len(TextEncode(text)), text, <<0>>) : text \in HeaderTexts}
       \cup {Container(layout, i, pad, <<255>>) :
               layout \in 0..2, i \in {0, 2, 5}, pad \in {0, 30}}

InitAivmFile ==
    /\ pc = "start"
    /\ aivm_file \in AivmFiles
    /\ \E m \in {Text.a, Text.json}, sv \in 0..2 :
            raw_metadata = SerializedMetadata(m, Text.quoted, sv)
    /\ aivmx_file = <<>>
    /\ aivm_metadata = Null
    /\ architecture = <<>>
    /\ hyper_parameters_file = Null
    /\ style_vectors_file = Null
    /\ written = Null
    /\ read = Null
    /\ result = Null
    /\ uuid_counter = 0

\* readAivmMetadata(aivm_file)
ReadFile ==
    /\ pc = "start"
    /\ read' = ReadAivmMetadata(aivm_file)
    /\ pc' = "file_read"
    /\ UNCHANGED <<aivm_file, aivmx_file, raw_metadata, aivm_metadata,
                   architecture, hyper_parameters_file, style_vectors_file,
                   written, result, uuid_counter>>

\* writeAivmMetadata, resumed after `await aivm_file.arrayBuffer()`
WriteFile ==
    /\ pc = "start"
    /\ written' = WriteAivmFile(aivm_file, raw_metadata)
    /\ pc' = "file_written"
    /\ UNCHANGED <<aivm_file, aivmx_file, raw_metadata, aivm_metadata,
                   architecture, hyper_parameters_file, style_vectors_file,
                   read, result, uuid_counter>>

NextAivmFile == ReadFile \/ WriteFile

SpecAivmFile == InitAivmFile /\ [][NextAivmFile]_vars

\* the file has its 8 bytes of size and declares more header bytes than follow
DeclaresTooLong(file) == Len(file) >= 8 /\ GetBigUint64(file) > Len(file) - 8

\* C11: a read of a file whose first 8 bytes declare a header longer than
\* the bytes that follow fails with the format error of the container.
C11_BadLengthIsFormatError ==
    (pc = "file_read" /\ DeclaresTooLong(aivm_file)) =>
        /\ ~read.ok
        /\ read.error = "FormatError"

\* a read of a file whose declared size is one more than the bytes of a
\* header that is JSON
C11_Witness ==
    /\ pc = "file_read"
    /\ DeclaresTooLong(aivm_file)
    /\ JSONParse(TextDecode(SubSeq(aivm_file, 9, Len(aivm_file)))).ok
    /\ ~read.ok

\* C12: a read of a file whose declared header bytes are all there and are
\* not JSON fails with the format error of the container, as a read of a
\* file with a bad size does.
C12_UnparseableIsFormatError ==
    (/\ pc = "file_read"
     /\ Len(aivm_file) >= 8
     /\ ~DeclaresTooLong(aivm_file)
     /\ ~JSONParse(TextDecode(SubSeq(aivm_file, 9, 8 + GetBigUint64(aivm_file)))).ok)
    => (~read.ok /\ read.error = "FormatError")

\* the header bytes can be taken and parse as a JSON object without __metadata__
HeaderWithoutMetadata(file) ==
    /\ Len(file) >= 8
    /\ ~DeclaresTooLong(file)
    /\ JSONParse(TextDecode(SubSeq(file, 9, 8 + GetBigUint64(file)))).ok
    /\ JSONParse(TextDecode(SubSeq(file, 9, 8 + GetBigUint64(file)))).v.t = "obj"
    /\ KeyIndex(JSONParse(TextDecode(SubSeq(file, 9, 8 + GetBigUint64(file)))).v.v,
                Key.metadata) = 0

\* C13: a file whose header is a JSON object without the key __metadata__
\* decodes without error to a metadata map with no entry; the read goes on
\* to the validator and ends as the validation of the empty map ends.
C13_MissingMetadataIsEmpty ==
    (pc = "file_read" /\ HeaderWithoutMetadata(aivm_file)) =>
        /\ ReadAivmRawMetadata(aivm_file).ok
        /\ MetadataMap(ReadAivmRawMetadata(aivm_file).raw_metadata) = <<>>
        /\ read = ValidateAivmMetadata(<<>>)
        /\ read.error = "ManifestNotFound"

\* a read of a file whose header holds a tensor and no __metadata__
C13_Witness ==
    /\ pc = "file_read"
    /\ HeaderWithoutMetadata(aivm_file)
    /\ GetBigUint64(aivm_file) > 2

C14_Renamed ==
    /\ pc = "updated"
    /\ Len(ExistingSpeakers) = 1
    /\ ExistingSpeakers[1].name = Lit.a
    /\ result.updated_metadata.hyper_parameters.spk2id = <<[k |-> Lit.b, v |-> 0]>>
    /\ result.warnings = <<>>
    /\ UpdatedSpeakersOfResult[1].name = Lit.a

\* C15: validate fails a manifest whose model_architecture it does not
\* know with an error of its own kind, which is not the error of a
\* manifest or of hyperparameters that do not conform.
C15_ArchitectureErrorDistinct ==
    LET Architecture(parsed) ==
            IF parsed.ok /\ parsed.v.t = "obj"
            THEN ObjGet(parsed.v.v, Field.model_architecture) ELSE Undefined
        Unknown(x) ==
            x.t = "str" /\ x.v \notin {Lit.StyleBertVITS2, Lit.StyleBertVITS2_JPExtra}
    IN (/\ pc = "invalid"
        /\ Truthy(ObjGet(raw_metadata, Key.manifest))
        /\ Unknown(Architecture(JSONParse(ObjGet(raw_metadata, Key.manifest).v))))
       => result.error = "UnsupportedArchitecture"

\* what validate does report: a manifest that is missing or does not
\* conform fails at the manifest, and hyperparameters that are missing or
\* do not conform, under a manifest that conforms, fail at the hyperparameters
C15_StageErrors ==
    LET Conforms(text) ==
            /\ Truthy(text)
            /\ JSONParse(text.v).ok
            /\ AivmManifestSchema(JSONParse(text.v).v).ok
    IN (pc = "invalid") =>
          /\ ~Truthy(ObjGet(raw_metadata, Key.manifest))
                => result.error = "ManifestNotFound"
          /\ (/\ Truthy(ObjGet(raw_metadata, Key.manifest))
              /\ ~Conforms(ObjGet(raw_metadata, Key.manifest)))
                => result.error = "ManifestFormat"
          /\ Conforms(ObjGet(raw_metadata, Key.manifest))
                => result.error \in {"HyperParametersNotFound", "HyperParametersFormat",
                                     "StyleVectorsDecode"}

\* C16: applyAivmManifestToHyperParameters on an aggregate without
\* style_vectors fails, and the aggregate is after the call what it was
\* before it: model_name, training_files, validation_files, spk2id,
\* style2id, n_speakers and num_styles, and every other field.
C16_FailedApplyChangesNothing ==
    [][(/\ pc \in {"generated", "validated", "updated"}
        /\ pc' \in {"applied", "apply_failed"}
        /\ (IF pc = "updated" THEN result.updated_metadata
                              ELSE aivm_metadata).style_vectors.t = "undefined")
       => /\ pc' = "apply_failed"
          /\ ~result'.ok
          /\ aivm_metadata' = (IF pc = "updated" THEN result.updated_metadata
                                                 ELSE aivm_metadata)]_vars

C16_Witness ==
    /\ pc = "apply_failed"
    /\ result.error = "NoStyleVectors"
    /\ aivm_metadata.style_vectors.t = "undefined"
    /\ aivm_metadata.hyper_parameters.training_files # JStr(Lit.train_list)
    /\ aivm_metadata.hyper_parameters.spk2id # <<>>
    /\ aivm_metadata.manifest.speakers = <<>>

----------------------------------------------------------------------------
(* SpecStore: a caller holds an aggregate and a file of each kind, reads    *)
(* the files, or writes the aggregate into one of them and reads the file   *)
(* that the write returned.  aivm_metadata is the aggregate as the caller   *)
(* handed it to the write, written.aivm_metadata as the write left it.      *)

\* readAivmxMetadata: the collected metadata_props handed to the validator
ReadAivmxMetadata(aivmx_file_bytes) ==
    LET Validated(raw) ==
            IF ~raw.ok THEN raw ELSE ValidateAivmMetadata(raw.raw_metadata.v)
    IN Validated(ReadAivmxRawMetadata(aivmx_file_bytes))

\* a write that serializes the aggregate before it applies the manifest to
\* the hyperparameters
WriteAivmMetadata_SerializeFirst(aivm_file_bytes, metadata) ==
    LET Left(outcome, left) ==
            [ok |-> outcome.ok, error |-> outcome.error,
             file |-> IF outcome.ok THEN outcome.file ELSE <<>>,
             aivm_metadata |-> left]
        Put(left, raw, valid) ==
            IF ~valid.ok THEN Left(valid, left)
            ELSE Left(WriteAivmFile(aivm_file_bytes, raw), left)
        Applied(applied, raw) ==
            IF ~applied.ok THEN Left(applied, applied.aivm_metadata)
            ELSE Put(applied.aivm_metadata, raw, ValidateAivmMetadata(raw))
    IN Applied(ApplyAivmManifestToHyperParameters(
                   [metadata EXCEPT !.manifest.model_format = Lit.Safetensors]),
               SerializeAivmMetadata(
                   [metadata EXCEPT !.manifest.model_format = Lit.Safetensors]))

\* writeAivmMetadata: model_format set, the manifest applied to the
\* hyperparameters, the aggregate serialized and validated, the file written
WriteAivmMetadata(aivm_file_bytes, metadata) ==
    LET Left(outcome, left) ==
            [ok |-> outcome.ok, error |-> outcome.error,
             file |-> IF outcome.ok THEN outcome.file ELSE <<>>,
             aivm_metadata |-> left]
        Put(left, raw, valid) ==
            IF ~valid.ok THEN Left(valid, left)
            ELSE Left(WriteAivmFile(aivm_file_bytes, raw), left)
        Serialized(left, raw) == Put(left, raw, ValidateAivmMetadata(raw))
        Applied(applied) ==
            IF ~applied.ok THEN Left(applied, applied.aivm_metadata)
            ELSE Serialized(applied.aivm_metadata,
                            SerializeAivmMetadata(applied.aivm_metadata))
    IN Applied(ApplyAivmManifestToHyperParameters(
                   [metadata EXCEPT !.manifest.model_format = Lit.Safetensors]))

\* writeAivmxMetadata: model_format set, the manifest applied, the model
\* decoded, the aggregate serialized and validated, the model encoded
WriteAivmxMetadata(aivmx_file_bytes, metadata) ==
    LET Left(outcome, left) ==
            [ok |-> outcome.ok, error |-> outcome.error,
             file |-> IF outcome.ok THEN outcome.file ELSE <<>>,
             aivm_metadata |-> left]
        Put(left, raw, valid, decoded) ==
            IF decoded.state # "end" THEN Left(Failure("FormatError"), left)
            ELSE IF ~valid.ok THEN Left(valid, left)
            ELSE Left(WriteDecodedModel(decoded, raw), left)
        Serialized(left, raw) ==
            Put(left, raw, ValidateAivmMetadata(raw), DecodeModelProto(aivmx_file_bytes))
        Applied(applied) ==
            IF ~applied.ok THEN Left(applied, applied.aivm_metadata)
            ELSE Serialized(applied.aivm_metadata,
                            SerializeAivmMetadata(applied.aivm_metadata))
    IN Applied(ApplyAivmManifestToHyperParameters(
                   [metadata EXCEPT !.manifest.model_format = Lit.ONNX]))

\* the aggregates a caller holds: generated from each hyperparameters file
\* that generateAivmMetadata accepts, with either model_format, without
\* style vectors, with style vectors of no byte and of one byte
CallerAggregates ==
    LET Generated(file) ==
            GenerateAivmMetadata(Lit.StyleBertVITS2_JPExtra, file, Bytes(<<1>>), 0)
        Accepted == {file \in HyperParametersFiles : Generated(file).ok}
    IN {[Generated(file).aivm_metadata EXCEPT !.manifest.model_format = format,
                                              !.style_vectors = style_vectors] :
          file \in Accepted, format \in {Lit.Safetensors, Lit.ONNX},
          style_vectors \in {Undefined, Bytes(<<>>), Bytes(<<1>>)}}

\* each file holds the aggregate as it is, or no aggregate
InitStore ==
    /\ pc = "start"
    /\ aivm_metadata \in CallerAggregates
    /\ \E stored \in BOOLEAN :
         /\ aivm_file =
              IF stored
              THEN WriteAivmFile(Container(1, 2, 0, <<255>>),
                                 SerializeAivmMetadata(aivm_metadata)).file
              ELSE Container(1, 2, 0, <<255>>)
         /\ aivmx_file =
              IF stored
              THEN WriteAivmxFile(ModelFile(1, TRUE, <<255>>),
                                  SerializeAivmMetadata(aivm_metadata)).file
              ELSE ModelFile(1, TRUE, <<255>>)
    /\ raw_metadata = <<>>
    /\ architecture = <<>>
    /\ hyper_parameters_file = Null
    /\ style_vectors_file = Null
    /\ written = Null
    /\ read = Null
    /\ result = Null
    /\ uuid_counter = 0

\* readAivmMetadata(aivm_file)
ReadStoredAivm ==
    /\ pc = "start"
    /\ read' = ReadAivmMetadata(aivm_file)
    /\ pc' = "aivm_read"
    /\ UNCHANGED <<aivm_file, aivmx_file, raw_metadata, aivm_metadata,
                   architecture, hyper_parameters_file, style_vectors_file,
                   written, result, uuid_counter>>

\* readAivmxMetadata(aivmx_file)
ReadStoredAivmx ==
    /\ pc = "start"
    /\ read' = ReadAivmxMetadata(aivmx_file)
    /\ pc' = "aivmx_read"
    /\ UNCHANGED <<aivm_file, aivmx_file, raw_metadata, aivm_metadata,
                   architecture, hyper_parameters_file, style_vectors_file,
                   written, result, uuid_counter>>

\* writeAivmMetadata(aivm_file, aivm_metadata)
WriteAivmAggregate ==
    /\ pc = "start"
    /\ written' = WriteAivmMetadata(aivm_file, aivm_metadata)
    /\ pc' = IF written'.ok THEN "aivm_written" ELSE "write_failed"
    /\ UNCHANGED <<aivm_file, aivmx_file, raw_metadata, aivm_metadata,
                   architecture, hyper_parameters_file, style_vectors_file,
                   read, result, uuid_counter>>

\* writeAivmxMetadata(aivmx_file, aivm_metadata)
WriteAivmxAggregate ==
    /\ pc = "start"
    /\ written' = WriteAivmxMetadata(aivmx_file, aivm_metadata)
    /\ pc' = IF written'.ok THEN "aivmx_written" ELSE "write_failed"
    /\ UNCHANGED <<aivm_file, aivmx_file, raw_metadata, aivm_metadata,
                   architecture, hyper_parameters_file, style_vectors_file,
                   read, result, uuid_counter>>

\* readAivmMetadata on the file writeAivmMetadata returned
ReadWrittenAivm ==
    /\ pc = "aivm_written"
    /\ read' = ReadAivmMetadata(written.file)
    /\ pc' = "aivm_reread"
    /\ UNCHANGED <<aivm_file, aivmx_file, raw_metadata, aivm_metadata,
                   architecture, hyper_parameters_file, style_vectors_file,
                   written, result, uuid_counter>>

\* readAivmxMetadata on the file writeAivmxMetadata returned
ReadWrittenAivmx ==
    /\ pc = "aivmx_written"
    /\ read' = ReadAivmxMetadata(written.file)
    /\ pc' = "aivmx_reread"
    /\ UNCHANGED <<aivm_file, aivmx_file, raw_metadata, aivm_metadata,
                   architecture, hyper_parameters_file, style_vectors_file,
                   written, result, uuid_counter>>

NextStore == ReadStoredAivm \/ ReadStoredAivmx \/ WriteAivmAggregate \/ WriteAivmxAggregate \/ ReadWrittenAivm \/ ReadWrittenAivmx

SpecStore == InitStore /\ [][NextStore]_vars

\* C17: the model_format of every aggregate that readAivmMetadata returns
\* is "Safetensors", and of every aggregate that readAivmxMetadata returns
\* "ONNX".
C17_ReadFormatMatchesContainer ==
    /\ (pc \in {"aivm_read", "aivm_reread"} /\ read.ok)
          => read.aivm_metadata.manifest.model_format = Lit.Safetensors
    /\ (pc \in {"aivmx_read", "aivmx_reread"} /\ read.ok)
          => read.aivm_metadata.manifest.model_format = Lit.ONNX

\* the manifest a write stores, and leaves in the caller's aggregate, has
\* the model_format of the container, whatever the aggregate held
C17_WrittenFormatMatchesContainer ==
    /\ (pc = "aivm_written")
          => written.aivm_metadata.manifest.model_format = Lit.Safetensors
    /\ (pc = "aivmx_written")
          => written.aivm_metadata.manifest.model_format = Lit.ONNX
    /\ (pc = "aivm_reread")
          => (read.ok /\ read.aivm_metadata.manifest.model_format = Lit.Safetensors)
    /\ (pc = "aivmx_reread")
          => (read.ok /\ read.aivm_metadata.manifest.model_format = Lit.ONNX)

C17_WrittenOtherFormat ==
    \/ pc = "aivm_reread" /\ aivm_metadata.manifest.model_format = Lit.ONNX
    \/ pc = "aivmx_reread" /\ aivm_metadata.manifest.model_format = Lit.Safetensors

\* C18: every property of the hyperparameters file other than model_name,
\* spk2id, style2id, n_speakers, num_styles, training_files and
\* validation_files, named by the schema or not, has the same value in the
\* hyperparameters of the aggregate that generateAivmMetadata returns.
C18_OpaquePassThrough ==
    LET Written == {Field.spk2id, Field.style2id, Field.n_speakers, Field.num_styles,
                    Field.training_files, Field.validation_files}
        SameOthers(given, kept, except) ==
            \A k \in ObjKeys(given) \ except : ObjGet(kept, k) = ObjGet(given, k)
        Same(given, kept) ==
            /\ SameOthers(given, kept, {Field.model_name, Field.data})
            /\ SameOthers(ObjGet(given, Field.data).v, ObjGet(kept, Field.data).v, Written)
    IN (pc = "generated")
         => Same(hyper_parameters_file.v.v,
                 HyperParametersDocument(aivm_metadata.hyper_parameters).v)

\* the properties the schema names and no operation writes keep their
\* values through the parse of generateAivmMetadata and through apply
C18_NamedPassThrough ==
    [][LET Others(hyper_parameters) ==
               <<hyper_parameters.version, hyper_parameters.sampling_rate,
                 hyper_parameters.use_jp_extra>>
           OthersOfFile(document) ==
               <<ObjGet(document, Field.version).v,
                 ObjGet(ObjGet(document, Field.data).v, Field.sampling_rate),
                 ObjGet(ObjGet(document, Field.data).v, Field.use_jp_extra)>>
       IN /\ (pc = "start" /\ pc' = "generated")
               => Others(aivm_metadata'.hyper_parameters)
                    = OthersOfFile(hyper_parameters_file'.v.v)
          /\ (pc' = "applied")
               => Others(aivm_metadata'.hyper_parameters)
                    = Others((IF pc = "updated" THEN result.updated_metadata
                                                ELSE aivm_metadata).hyper_parameters)]_vars

\* and through a write followed by a read of the written file
C18_NamedThroughStore ==
    LET Others(hyper_parameters) ==
            <<hyper_parameters.version, hyper_parameters.sampling_rate,
              hyper_parameters.use_jp_extra>>
    IN (pc \in {"aivm_reread", "aivmx_reread"})
         => /\ read.ok
            /\ Others(read.aivm_metadata.hyper_parameters)
                 = Others(aivm_metadata.hyper_parameters)

C18_SamplingRateStored ==
    /\ pc \in {"aivm_reread", "aivmx_reread"}
    /\ aivm_metadata.hyper_parameters.sampling_rate = JNum(44100)

\* C19: writeAivmMetadata fails exactly when the header of the file is not
\* JSON, and then with the format error; for a header that is JSON it
\* returns the bytes of a file, whether the new header is longer or shorter.
C19_WriteFailsOnlyUnparseable ==
    LET Parses(file) == JSONParse(TextDecode(SubSeq(file, 9, 8 + GetBigUint64(file)))).ok
    IN (/\ pc = "file_written"
        /\ Len(aivm_file) >= 8
        /\ ~DeclaresTooLong(aivm_file))
       => /\ written.ok <=> Parses(aivm_file)
          /\ ~written.ok => written.error = "FormatError"

\* a header that is a JSON object, with no __metadata__ or with one that is
\* an object, is written whatever the lengths of the two headers
C19_ObjectHeaderWrites ==
    LET Header(file) == JSONParse(TextDecode(SubSeq(file, 9, 8 + GetBigUint64(file))))
        IsObjectHeader(parsed) ==
            /\ parsed.ok
            /\ parsed.v.t = "obj"
            /\ ObjGet(parsed.v.v, Key.metadata).t \in {"obj", "undefined"}
    IN (/\ pc = "file_written"
        /\ Len(aivm_file) >= 8
        /\ ~DeclaresTooLong(aivm_file)
        /\ IsObjectHeader(Header(aivm_file)))
       => written.ok

C19_Shrinks ==
    /\ pc = "file_written"
    /\ written.ok
    /\ GetBigUint64(written.file) < GetBigUint64(aivm_file)

C19_Grows ==
    /\ pc = "file_written"
    /\ written.ok
    /\ GetBigUint64(written.file) > GetBigUint64(aivm_file)

C20_Accepted ==
    /\ pc = "updated"
    /\ result.ok
    /\ architecture # <<>>

\* C21: after an update of a manifest whose speakers have distinct
\* local_ids, the local_ids of the speakers are the ids of the new spk2id,
\* the retained speakers come first and then one new speaker for each id
\* that no existing speaker had, with a uuid no existing speaker has and the
\* default icon, and the style local_ids of every speaker are the ids of
\* the new style2id.
C21_UpdatedCatalog ==
    LET Ids(list) == {list[i].local_id : i \in 1..Len(list)}
        Uuids(list) == {list[i].uuid : i \in 1..Len(list)}
        IsExisting(speaker) == speaker.local_id \in Ids(ExistingSpeakers)
        Catalog(existing, updated, spk2id, style2id) ==
            /\ Ids(updated) = MapIds(spk2id)
            /\ Len(updated) = Len(spk2id)
            /\ \A i, j \in 1..Len(updated) :
                 (i < j /\ IsExisting(updated[j])) => IsExisting(updated[i])
            /\ \A j \in 1..Len(updated) :
                 ~IsExisting(updated[j])
                 => /\ updated[j].uuid \notin Uuids(existing)
                    /\ updated[j].icon = DefaultIcon
            /\ \A i, j \in 1..Len(updated) :
                 (i # j /\ ~IsExisting(updated[i]) /\ ~IsExisting(updated[j]))
                 => updated[i].uuid # updated[j].uuid
            /\ \A j \in 1..Len(updated) : Ids(updated[j].styles) = MapIds(style2id)
    IN (pc = "updated" /\ DistinctLocalIds(ExistingSpeakers))
       => Catalog(ExistingSpeakers, UpdatedSpeakersOfResult,
                  result.updated_metadata.hyper_parameters.spk2id,
                  result.updated_metadata.hyper_parameters.style2id)

\* an update that retained a speaker, gave it a style it did not have, and
\* added a speaker
C21_Witness ==
    /\ pc = "updated"
    /\ Len(ExistingSpeakers) = 1
    /\ Len(UpdatedSpeakersOfResult) = 2
    /\ UpdatedSpeakersOfResult[1].uuid = ExistingSpeakers[1].uuid
    /\ Len(UpdatedSpeakersOfResult[1].styles) > Len(ExistingSpeakers[1].styles)
    /\ UpdatedSpeakersOfResult[2].local_id
         \notin {ExistingSpeakers[i].local_id : i \in 1..Len(ExistingSpeakers)}

\* an update that dropped one of two speakers
C21_Dropped ==
    /\ pc = "updated"
    /\ DistinctLocalIds(ExistingSpeakers)
    /\ Len(ExistingSpeakers) = 2
    /\ Len(UpdatedSpeakersOfResult) = 1

C23_RemovalsBeforeAdditions ==
    (pc = "updated" /\ DistinctLocalIds(ExistingSpeakers))
    => \A i, j \in 1..Len(result.warnings) :
          (/\ result.warnings[i][1] \in {"StyleAdded", "SpeakerAdded"}
           /\ result.warnings[j][1] \in {"StyleRemoved", "SpeakerRemoved"})
          => j < i

\* what the order is: the warnings of each existing speaker in the order
\* of the manifest, its removed styles before its added styles, and the
\* added speakers last
C23_OrderBySpeaker ==
    (pc = "updated")
    => /\ \A i, j \in 1..Len(result.warnings) :
            (result.warnings[i][1] = "SpeakerAdded"
             /\ result.warnings[j][1] # "SpeakerAdded") => j < i
       /\ \A i, j \in 1..Len(result.warnings) :
            (/\ result.warnings[i][1] = "StyleAdded"
             /\ result.warnings[j][1] = "StyleRemoved"
             /\ Len(ExistingSpeakers) = 1) => j < i

\* C24: after an apply on an aggregate with style vectors, whose speakers
\* and styles have one local_id per name, spk2id has the entry name ->
\* local_id of every manifest speaker whose local_id was an id of the
\* spk2id before the call and no other entry, style2id likewise of every
\* style of every speaker, n_speakers and num_styles are the numbers of
\* entries, model_name is the name of the manifest, and training_files and
\* validation_files are "train.list" and "val.list".
C24_AppliedMaps ==
    [][LET Entries(map) == {<<map[i].k, map[i].v>> : i \in 1..Len(map)}
           Matched(items, old_map) ==
               {<<items[k].name, items[k].local_id>> :
                  k \in {m \in 1..Len(items) : items[m].local_id \in MapIds(old_map)}}
           Styles(manifest) ==
               Flatten([i \in 1..Len(manifest.speakers) |-> manifest.speakers[i].styles])
           OneIdPerName(items) ==
               \A i, j \in 1..Len(items) :
                  items[i].name = items[j].name => items[i].local_id = items[j].local_id
           Synced(before, after) ==
               (OneIdPerName(before.manifest.speakers) /\ OneIdPerName(Styles(before.manifest)))
               => /\ Entries(after.hyper_parameters.spk2id)
                       = Matched(before.manifest.speakers, before.hyper_parameters.spk2id)
                  /\ Entries(after.hyper_parameters.style2id)
                       = Matched(Styles(before.manifest), before.hyper_parameters.style2id)
                  /\ after.hyper_parameters.n_speakers
                       = Cardinality(Entries(after.hyper_parameters.spk2id))
                  /\ after.hyper_parameters.num_styles
                       = Cardinality(Entries(after.hyper_parameters.style2id))
                  /\ after.hyper_parameters.model_name = before.manifest.name
                  /\ after.hyper_parameters.training_files = JStr(Lit.train_list)
                  /\ after.hyper_parameters.validation_files = JStr(Lit.val_list)
       IN (pc \in {"generated", "validated", "updated"} /\ pc' = "applied")
          => Synced(IF pc = "updated" THEN result.updated_metadata ELSE aivm_metadata,
                    aivm_metadata')]_vars

\* the same, for hyperparameters in which no speaker and no style has the
\* empty name before the call
C24_AppliedMapsNamed ==
    [][LET Entries(map) == {<<map[i].k, map[i].v>> : i \in 1..Len(map)}
           Matched(items, old_map) ==
               {<<items[k].name, items[k].local_id>> :
                  k \in {m \in 1..Len(items) : items[m].local_id \in MapIds(old_map)}}
           Styles(manifest) ==
               Flatten([i \in 1..Len(manifest.speakers) |-> manifest.speakers[i].styles])
           OneIdPerName(items) ==
               \A i, j \in 1..Len(items) :
                  items[i].name = items[j].name => items[i].local_id = items[j].local_id
           Synced(before, after) ==
               (OneIdPerName(before.manifest.speakers) /\ OneIdPerName(Styles(before.manifest))
                /\ (\A i \in 1..Len(before.hyper_parameters.spk2id) :
                      before.hyper_parameters.spk2id[i].k # <<>>)
                /\ (\A i \in 1..Len(before.hyper_parameters.style2id) :
                      before.hyper_parameters.style2id[i].k # <<>>))
               => /\ Entries(after.hyper_parameters.spk2id)
                       = Matched(before.manifest.speakers, before.hyper_parameters.spk2id)
                  /\ Entries(after.hyper_parameters.style2id)
                       = Matched(Styles(before.manifest), before.hyper_parameters.style2id)
                  /\ after.hyper_parameters.n_speakers
                       = Cardinality(Entries(after.hyper_parameters.spk2id))
                  /\ after.hyper_parameters.num_styles
                       = Cardinality(Entries(after.hyper_parameters.style2id))
                  /\ after.hyper_parameters.model_name = before.manifest.name
                  /\ after.hyper_parameters.training_files = JStr(Lit.train_list)
                  /\ after.hyper_parameters.validation_files = JStr(Lit.val_list)
       IN (pc \in {"generated", "validated", "updated"} /\ pc' = "applied")
          => Synced(IF pc = "updated" THEN result.updated_metadata ELSE aivm_metadata,
                    aivm_metadata')]_vars

\* C25: the bytes that writeAivmMetadata or writeAivmxMetadata returns
\* store the hyperparameters as applyAivmManifestToHyperParameters leaves
\* them, and a map that validateAivmMetadata accepts; a write whose
\* aggregate is refused by apply or by the validation returns no bytes.
C25_SyncedBeforeSerialized ==
    LET Names(items) == {items[i].name : i \in 1..Len(items)}
        Keys(map) == {map[i].k : i \in 1..Len(map)}
        IsSynced(metadata) ==
            /\ metadata.hyper_parameters.model_name = metadata.manifest.name
            /\ metadata.hyper_parameters.training_files = JStr(Lit.train_list)
            /\ metadata.hyper_parameters.validation_files = JStr(Lit.val_list)
            /\ Keys(metadata.hyper_parameters.spk2id) \subseteq Names(metadata.manifest.speakers)
            /\ Keys(metadata.hyper_parameters.style2id)
                 \subseteq Names(Flatten([i \in 1..Len(metadata.manifest.speakers) |->
                                            metadata.manifest.speakers[i].styles]))
            /\ metadata.hyper_parameters.n_speakers = Len(metadata.hyper_parameters.spk2id)
            /\ metadata.hyper_parameters.num_styles = Len(metadata.hyper_parameters.style2id)
        Stored(raw, format) ==
            /\ \A k \in {Key.manifest, Key.hyper_parameters} :
                 ObjGet(raw, k) = ObjGet(SerializeAivmMetadata(written.aivm_metadata), k)
            /\ ValidateAivmMetadata(raw).ok
            /\ IsSynced(ValidateAivmMetadata(raw).aivm_metadata)
            /\ written.aivm_metadata.hyper_parameters
                 = ApplyAivmManifestToHyperParameters(
                       [aivm_metadata EXCEPT !.manifest.model_format = format]
                   ).aivm_metadata.hyper_parameters
    IN /\ (pc = "aivm_written")
            => Stored(ReadAivmRawMetadata(written.file).raw_metadata.v, Lit.Safetensors)
       /\ (pc = "aivmx_written")
            => Stored(ReadAivmxRawMetadata(written.file).raw_metadata.v, Lit.ONNX)
       /\ (pc = "write_failed") => written.file = <<>>

\* a write of an aggregate whose hyperparameters were not the synced ones
C25_Witness ==
    /\ pc \in {"aivm_written", "aivmx_written"}
    /\ written.ok
    /\ written.aivm_metadata.hyper_parameters # aivm_metadata.hyper_parameters
    /\ aivm_metadata.hyper_parameters.training_files # JStr(Lit.train_list)

\* a write that returned no bytes for an aggregate the validation refuses
C25_Refused ==
    /\ pc = "write_failed"
    /\ written.error \in {"ManifestFormat", "HyperParametersFormat"}

\* C26: after writeAivmMetadata or writeAivmxMetadata, returned or failed,
\* the manifest of the aggregate the caller passed in is what it was
\* before the call.
C26_WriteKeepsManifest ==
    (pc \in {"aivm_written", "aivmx_written", "write_failed"})
    => written.aivm_metadata.manifest = aivm_metadata.manifest

\* every field of the manifest but model_format is what it was
C26_WriteKeepsOtherFields ==
    (pc \in {"aivm_written", "aivmx_written", "write_failed"})
    => [written.aivm_metadata.manifest EXCEPT !.model_format = <<>>]
         = [aivm_metadata.manifest EXCEPT !.model_format = <<>>]

\* C27: in the file writeAivmxMetadata returns, a property whose key is not
\* written is the property it was, at its position; the first property of a
\* written key holds the written value at its position; every written key
\* without a property has one new property after the existing ones, in the
\* order written; and the map readAivmxMetadata collects holds exactly the
\* keys of the properties with a non-empty key and a non-empty value, each
\* with the value of the last such property.
C27_MetadataPropsFrame ==
    LET WrittenKeys == {raw_metadata[i].k : i \in 1..Len(raw_metadata)}
        IsNew(old, i) == FindProp(old, raw_metadata[i].k) = 0
        NewBefore(old, i) == Cardinality({j \in 1..(i - 1) : IsNew(old, j)})
        Frame(old, new) ==
            /\ Len(new) = Len(old)
                 + Cardinality({i \in 1..Len(raw_metadata) : IsNew(old, i)})
            /\ (\A p \in 1..Len(old) :
                  /\ new[p].key = old[p].key
                  /\ new[p].has_key = old[p].has_key
                  /\ (old[p].key \notin WrittenKeys => new[p] = old[p]))
            /\ (\A i \in 1..Len(raw_metadata) :
                  IF IsNew(old, i)
                  THEN new[Len(old) + NewBefore(old, i) + 1]
                         = [key |-> raw_metadata[i].k, value |-> raw_metadata[i].v.v,
                            has_key |-> TRUE, has_value |-> TRUE]
                  ELSE new[FindProp(old, raw_metadata[i].k)].value
                         = raw_metadata[i].v.v)
        Kept(props) == {p \in 1..Len(props) : props[p].key # <<>> /\ props[p].value # <<>>}
        Collected(props, entries) ==
            /\ {entries[i].k : i \in 1..Len(entries)}
                 = {props[p].key : p \in Kept(props)}
            /\ (\A i \in 1..Len(entries) :
                  \E p \in Kept(props) :
                     /\ props[p].key = entries[i].k
                     /\ entries[i].v = JStr(props[p].value)
                     /\ \A q \in Kept(props) : props[q].key = entries[i].k => q <= p)
    IN /\ (pc \in {"written", "read"} /\ written.ok)
          => Frame(DecodeModelProto(aivmx_file).model.metadataProps,
                   DecodeModelProto(written.file).model.metadataProps)
       /\ (pc = "read")
          => /\ read.ok
             /\ Collected(DecodeModelProto(written.file).model.metadataProps,
                          read.raw_metadata.v)

\* a write over a list with a property that is kept, one that is overwritten
\* with another value, and a key that is appended
C27_Witness ==
    /\ pc = "read"
    /\ LET old == DecodeModelProto(aivmx_file).model.metadataProps
           new == DecodeModelProto(written.file).model.metadataProps
       IN /\ Len(old) = 2
          /\ Len(new) > Len(old)
          /\ new[2] = old[2]
          /\ new[1].value # old[1].value

\* a read of a written file with a property of an empty key and one of an
\* empty value
C27_Skipped ==
    /\ pc = "read"
    /\ LET new == DecodeModelProto(written.file).model.metadataProps
       IN /\ \E p \in 1..Len(new) : new[p].key = <<>> /\ new[p].value # <<>>
          /\ \E p \in 1..Len(new) : new[p].key # <<>> /\ new[p].value = <<>>

----------------------------------------------------------------------------
(* SpecWrites: a caller starts writeAivmMetadata and writeAivmxMetadata on  *)
(* the same aggregate without awaiting either.  An async function runs to   *)
(* its first await in one piece and resumes, in one piece, after it; so     *)
(* each write is two steps, and the steps of the two writes interleave.     *)
(* aivm_metadata is the one aggregate both calls hold and assign to,        *)
(* raw_metadata the constant of that name in writeAivmMetadata, written the *)
(* outcome of writeAivmMetadata, result that of writeAivmxMetadata, and pc  *)
(* holds the position of each call.                                         *)

InitWrites ==
    /\ pc = [writeAivmMetadata |-> "start", writeAivmxMetadata |-> "start"]
    /\ aivm_metadata \in CallerAggregates
    /\ aivm_file = Container(1, 2, 0, <<255>>)
    /\ aivmx_file = ModelFile(1, TRUE, <<255>>)
    /\ raw_metadata = <<>>
    /\ architecture = <<>>
    /\ hyper_parameters_file = Null
    /\ style_vectors_file = Null
    /\ written = Null
    /\ read = Null
    /\ result = Null
    /\ uuid_counter = 0

\* writeAivmMetadata up to `await aivm_file.arrayBuffer()`: model_format
\* assigned, the manifest applied, the aggregate serialized and validated
StartWriteAivm ==
    /\ pc.writeAivmMetadata = "start"
    /\ LET applied == ApplyAivmManifestToHyperParameters(
                          [aivm_metadata EXCEPT !.manifest.model_format = Lit.Safetensors])
           Serialized(raw, valid) ==
               /\ raw_metadata' = raw
               /\ written' = IF valid.ok THEN written
                             ELSE [ok |-> FALSE, error |-> valid.error, file |-> <<>>]
               /\ pc' = [pc EXCEPT !.writeAivmMetadata =
                                      IF valid.ok THEN "awaiting" ELSE "thrown"]
       IN /\ aivm_metadata' = applied.aivm_metadata
          /\ IF applied.ok
             THEN Serialized(SerializeAivmMetadata(applied.aivm_metadata),
                             ValidateAivmMetadata(SerializeAivmMetadata(applied.aivm_metadata)))
             ELSE /\ raw_metadata' = raw_metadata
                  /\ written' = [ok |-> FALSE, error |-> applied.error, file |-> <<>>]
                  /\ pc' = [pc EXCEPT !.writeAivmMetadata = "thrown"]
    /\ UNCHANGED <<aivm_file, aivmx_file, architecture, hyper_parameters_file,
                   style_vectors_file, read, result, uuid_counter>>

\* writeAivmMetadata from its await on: raw_metadata put in the header
FinishWriteAivm ==
    /\ pc.writeAivmMetadata = "awaiting"
    /\ LET outcome == WriteAivmFile(aivm_file, raw_metadata)
       IN /\ written' = [ok |-> outcome.ok, error |-> outcome.error,
                         file |-> IF outcome.ok THEN outcome.file ELSE <<>>]
          /\ pc' = [pc EXCEPT !.writeAivmMetadata =
                                 IF outcome.ok THEN "returned" ELSE "thrown"]
    /\ UNCHANGED <<aivm_file, aivmx_file, raw_metadata, aivm_metadata, architecture,
                   hyper_parameters_file, style_vectors_file, read, result,
                   uuid_counter>>

\* writeAivmxMetadata up to `await aivmx_file.arrayBuffer()`: model_format
\* assigned, the manifest applied
StartWriteAivmx ==
    /\ pc.writeAivmxMetadata = "start"
    /\ LET applied == ApplyAivmManifestToHyperParameters(
                          [aivm_metadata EXCEPT !.manifest.model_format = Lit.ONNX])
       IN /\ aivm_metadata' = applied.aivm_metadata
          /\ result' = IF applied.ok THEN result
                       ELSE [ok |-> FALSE, error |-> applied.error, file |-> <<>>]
          /\ pc' = [pc EXCEPT !.writeAivmxMetadata =
                                 IF applied.ok THEN "awaiting" ELSE "thrown"]
    /\ UNCHANGED <<aivm_file, aivmx_file, raw_metadata, architecture,
                   hyper_parameters_file, style_vectors_file, written, read,
                   uuid_counter>>

\* writeAivmxMetadata from its await on: the model decoded, the aggregate
\* as it is now serialized and validated, the model encoded
FinishWriteAivmx ==
    /\ pc.writeAivmxMetadata = "awaiting"
    /\ LET Put(decoded, raw, valid) ==
               IF decoded.state # "end" THEN Failure("FormatError")
               ELSE IF ~valid.ok THEN valid
               ELSE WriteDecodedModel(decoded, raw)
           Returned(outcome) ==
               /\ result' = [ok |-> outcome.ok, error |-> outcome.error,
                             file |-> IF outcome.ok THEN outcome.file ELSE <<>>]
               /\ pc' = [pc EXCEPT !.writeAivmxMetadata =
                                      IF outcome.ok THEN "returned" ELSE "thrown"]
       IN Returned(Put(DecodeModelProto(aivmx_file),
                       SerializeAivmMetadata(aivm_metadata),
                       ValidateAivmMetadata(SerializeAivmMetadata(aivm_metadata))))
    /\ UNCHANGED <<aivm_file, aivmx_file, raw_metadata, aivm_metadata, architecture,
                   hyper_parameters_file, style_vectors_file, written, read,
                   uuid_counter>>

NextWrites == StartWriteAivm \/ FinishWriteAivm \/ StartWriteAivmx \/ FinishWriteAivmx

SpecWrites == InitWrites /\ [][NextWrites]_vars

\* C28: whatever the order in which the two writes on one aggregate run
\* their steps, the file writeAivmMetadata returns stores model_format
\* "Safetensors" and the file writeAivmxMetadata returns stores "ONNX".
C28_FormatPerContainer ==
    /\ (pc.writeAivmMetadata = "returned")
       => /\ ReadAivmMetadata(written.file).ok
          /\ ReadAivmMetadata(written.file).aivm_metadata.manifest.model_format
               = Lit.Safetensors
    /\ (pc.writeAivmxMetadata = "returned")
       => /\ ReadAivmxMetadata(result.file).ok
          /\ ReadAivmxMetadata(result.file).aivm_metadata.manifest.model_format
               = Lit.ONNX

\* the tensor output stores "Safetensors" in every interleaving
C28_TensorOutput ==
    (pc.writeAivmMetadata = "returned")
    => /\ ReadAivmMetadata(written.file).ok
       /\ ReadAivmMetadata(written.file).aivm_metadata.manifest.model_format
            = Lit.Safetensors

\* the graph output stores "ONNX" where writeAivmMetadata did not start
\* while writeAivmxMetadata was awaiting
C28_GraphOutputAlone ==
    [][(pc.writeAivmxMetadata = "awaiting" /\ pc'.writeAivmxMetadata = "returned"
         /\ aivm_metadata.manifest.model_format = Lit.ONNX)
       => ReadAivmxMetadata(result'.file).aivm_metadata.manifest.model_format
            = Lit.ONNX]_vars

\* C29: the aggregate read from a file that a write returned has style
\* vectors, byte for byte those of the aggregate written, and so is accepted
\* by applyAivmManifestToHyperParameters again.
C29_StyleVectorsReadBack ==
    (pc \in {"aivm_reread", "aivmx_reread"})
    => /\ read.ok
       /\ read.aivm_metadata.style_vectors = written.aivm_metadata.style_vectors
       /\ ApplyAivmManifestToHyperParameters(read.aivm_metadata).ok

\* the style vectors of one byte or more are read back as written
C29_NonEmptyReadBack ==
    (/\ pc \in {"aivm_reread", "aivmx_reread"}
     /\ written.aivm_metadata.style_vectors # Bytes(<<>>))
    => /\ read.ok
       /\ read.aivm_metadata.style_vectors = written.aivm_metadata.style_vectors
       /\ ApplyAivmManifestToHyperParameters(read.aivm_metadata).ok

\* C30: applyAivmManifestToHyperParameters on an aggregate that
\* generateAivmMetadata returned succeeds and leaves spk2id and style2id with
\* the ids of the hyperparameters given to generateAivmMetadata, and
\* n_speakers and num_styles equal to the sizes of those maps.
C30_GenerateThenSync ==
    [][LET Ids(map) == {map[i].v : i \in 1..Len(map)}
           Kept(before, after) ==
               /\ Ids(after.spk2id) = Ids(before.spk2id)
               /\ Ids(after.style2id) = Ids(before.style2id)
               /\ after.n_speakers = Len(before.spk2id)
               /\ after.num_styles = Len(before.style2id)
       IN (pc = "generated" /\ pc' \in {"applied", "apply_failed"})
          => /\ pc' = "applied"
             /\ Kept(aivm_metadata.hyper_parameters, aivm_metadata'.hyper_parameters)]_vars

\* the same where the ids of each given map are 0, 1, ... in the order of
\* its keys and no key is the empty text
C30_GenerateThenSyncIndexed ==
    [][LET Ids(map) == {map[i].v : i \in 1..Len(map)}
           Indexed(map) == \A i \in 1..Len(map) : map[i].v = i - 1 /\ map[i].k # <<>>
           Kept(before, after) ==
               /\ Ids(after.spk2id) = Ids(before.spk2id)
               /\ Ids(after.style2id) = Ids(before.style2id)
               /\ after.n_speakers = Len(before.spk2id)
               /\ after.num_styles = Len(before.style2id)
       IN (/\ pc = "generated" /\ pc' \in {"applied", "apply_failed"}
           /\ Indexed(aivm_metadata.hyper_parameters.spk2id)
           /\ Indexed(aivm_metadata.hyper_parameters.style2id))
          => /\ pc' = "applied"
             /\ Kept(aivm_metadata.hyper_parameters, aivm_metadata'.hyper_parameters)]_vars

====
